---- MODULE Spec2Model ----
(***************************************************************************)
(* Model of the bazaar (marketplace) subsystem of the Lunar mobile app:    *)
(* the backend tables and their constraints, policies and triggers         *)
(* (src/lib/types.ts), the listing detail screen (src/unnamed/part_006),   *)
(* the new-listing form (src/app/bazaar/_layout.tsx), the rate-seller      *)
(* screen (src/unnamed/part_007) and the chat screen                       *)
(* (src/app/bazaar/messages/[id].tsx).                                     *)
(*                                                                         *)
(* Every backend request is one atomic step at the moment the database     *)
(* executes it; the client continuation that consumes the response is part *)
(* of that step unless the code lets other callbacks run in between.       *)
(***************************************************************************)
EXTENDS Integers, Sequences, FiniteSets, TLC

\* ------------------------------------------------------------------------
\* Bounds of the model
\* ------------------------------------------------------------------------
MaxPosts == 1
MaxTime == 1
MaxCalls == 2
MaxMsgs == 1
MaxPending == 1
MaxConvs == 1
MaxUploads == 2
MaxAuthChanges == 2
MaxPages == 2
MaxReviews == 2

\* ------------------------------------------------------------------------
\* Value domains
\* ------------------------------------------------------------------------
Users == {"u1", "u2"}
Devices == {"d1", "d2"}
NULL == "NULL"
\* generated row identifiers (gen_random_uuid()): the n-th row of a table
PostId(n) == "p" \o ToString(n)
ConvId(n) == "c" \o ToString(n)
MsgId(n) == "m" \o ToString(n)
\* a rating row's identifier: a value no other row has
RatingId(buyer, post) == "r-" \o buyer \o "-" \o post
\* a nullable value: <<>> is SQL NULL / JS null, <<v>> is the value v
None == <<>>
Some(v) == <<v>>

VARIABLES
  bazaar_posts,          \* rows [id, user_id, status, sold_at]
  bazaar_conversations,  \* rows [id, post_id, buyer_id, seller_id, last_message_at]
  bazaar_messages,       \* rows [id, conversation_id, sender_id, content, is_read, created_at]
  seller_ratings,        \* rows [id, seller_id, buyer_id, post_id, rating, review_text]
  profiles,              \* [Users -> [seller_rating, seller_rating_count]]
  nextId,                \* [table name -> next generated row id]
  clock,                 \* wall clock / now()
  errors,                \* errors state of the new-listing form
  detail,                \* listing detail screen of each device
  calls,                 \* handleMessageSeller invocations
  lastNav,               \* per (buyer, post): the conversation "message seller" last opened
  rate,                  \* rate-seller screen of each device
  updateGranted,         \* whether role authenticated holds UPDATE on seller_ratings
  chat,                  \* the chat screen instance that is followed
  events,                \* insert events queued for the screen's subscription
  reads,                 \* read-mark requests on their way to the backend
  sends,                 \* message inserts on their way to the backend
  marked,                \* the bulk mark-read that has just completed, if any
  form,                  \* the fields of the new-listing form
  requests,              \* requests the form has issued: photo uploads, inserts
  priceView,             \* a post's price and the labels rendered from it
  inbox,                 \* the conversations (inbox) screen
  seen,                  \* message rows returned to each user by the backend
  auth,                  \* the auth client, useSession of the root layout, the route
  feed,                  \* the marketplace screen's paginated list
  reviews                \* restaurant_reviews and the restaurant detail screen

dbVars == <<bazaar_posts, bazaar_conversations, bazaar_messages, seller_ratings,
            profiles, nextId>>
callVars == <<calls, lastNav>>
rateVars == <<rate, updateGranted>>
chatVars == <<chat, events, reads, sends, marked>>
\* the client state outside the new-listing form, the detail screen, the
\* "message seller" invocations, the rate-seller screen and the chat screen
viewVars == <<priceView, inbox, seen>>
appVars == <<auth, feed, reviews>>
exceptForm == <<detail, callVars, rateVars, chatVars, viewVars, appVars>>
exceptDetail == <<errors, form, requests, callVars, rateVars, chatVars, viewVars, appVars>>
exceptCalls == <<errors, form, requests, detail, rateVars, chatVars, viewVars, appVars>>
exceptRate == <<errors, form, requests, detail, callVars, chatVars, viewVars, appVars>>
exceptChat == <<errors, form, requests, detail, callVars, rateVars, viewVars, appVars>>
exceptViews == <<errors, form, requests, detail, callVars, rateVars, chatVars, appVars>>
exceptApp == <<dbVars, clock, errors, form, requests, detail, callVars, rateVars,
               chatVars, viewVars>>
vars == <<bazaar_posts, bazaar_conversations, bazaar_messages, seller_ratings,
          profiles, nextId, clock, errors, detail, calls, lastNav, rate, updateGranted,
          chat, events, reads, sends, marked, form, requests, priceView, inbox, seen,
          auth, feed, reviews>>

\* ------------------------------------------------------------------------
\* Text values: a string is a sequence of characters
\* ------------------------------------------------------------------------
IsSpace(ch) == ch = " "

RECURSIVE TrimStart(_)
TrimStart(s) ==
  IF s # <<>> /\ IsSpace(Head(s)) THEN TrimStart(Tail(s)) ELSE s

RECURSIVE TrimEnd(_)
TrimEnd(s) ==
  IF s # <<>> /\ IsSpace(s[Len(s)]) THEN TrimEnd(SubSeq(s, 1, Len(s) - 1)) ELSE s

\* String.prototype.trim
Trim(s) == TrimEnd(TrimStart(s))

Digits == {"0", "1", "2", "3", "4", "5", "6", "7", "8", "9"}

\* Number.isNaN(Number(s)): Number() ignores surrounding white space, maps
\* the empty string to 0 and anything that is not a numeric literal to NaN.
NumberIsNaN(s) ==
  LET t == Trim(s) IN t # <<>> /\ \E i \in 1..Len(t) : t[i] \notin Digits

\* ------------------------------------------------------------------------
\* Backend: bazaar_posts
\* ------------------------------------------------------------------------
PostRow(pid) == CHOOSE r \in bazaar_posts : r.id = pid
PostExists(pid) == \E r \in bazaar_posts : r.id = pid

\* INSERT INTO bazaar_posts without a status: DEFAULT 'active', sold_at NULL
NewPostRow(pid, uid) ==
  [id |-> pid, user_id |-> uid, status |-> "active", sold_at |-> None]

\* CHECK (status IN ('active', 'sold'))
bazaar_posts_status_check(r) == r.status \in {"active", "sold"}

\* .update({ status: 'sold', sold_at: new Date().toISOString() })
MarkSoldUpdate_NoTimestamp(r, t) == [r EXCEPT !.status = "sold"]

MarkSoldUpdate(r, t) == [r EXCEPT !.status = "sold", !.sold_at = Some(t)]

\* ON DELETE CASCADE / ON DELETE SET NULL of the rows that reference a post
CascadeConversations(pid) == {c \in bazaar_conversations : c.post_id # pid}

CascadeMessages(pid) ==
  {m \in bazaar_messages :
     \E c \in CascadeConversations(pid) : c.id = m.conversation_id}

SetNullRatings(pid) ==
  {IF r.post_id = pid THEN [r EXCEPT !.post_id = NULL] ELSE r : r \in seller_ratings}

\* ------------------------------------------------------------------------
\* Backend: bazaar_conversations
\* ------------------------------------------------------------------------
\* policy "Users can view own conversations"
CanViewConversation(uid, c) == uid = c.buyer_id \/ uid = c.seller_id

\* policy "Buyers can create conversations"
CanCreateConversation(uid, c) == uid = c.buyer_id

\* UNIQUE(post_id, buyer_id)
ConversationUnique_Off(c) == TRUE

ConversationUnique(c) ==
  ~\E o \in bazaar_conversations : o.post_id = c.post_id /\ o.buyer_id = c.buyer_id

\* the error of INSERT INTO bazaar_conversations, NULL when the row is accepted
InsertConversationError(uid, c) ==
  IF ~CanCreateConversation(uid, c) THEN "rls"
  ELSE IF ~PostExists(c.post_id) THEN "foreign_key"
  ELSE IF ~ConversationUnique(c) THEN "unique"
  ELSE NULL

\* .select('id').eq('post_id', post.id).eq('buyer_id', user.id).single()
\* as user uid: the id when exactly one visible row matches, else no data
existingConv_BySeller(uid, post) ==
  LET rows == {c \in bazaar_conversations :
                 /\ CanViewConversation(uid, c)
                 /\ c.post_id = post.id
                 /\ c.buyer_id = post.user_id}
  IN IF Cardinality(rows) = 1 THEN Some((CHOOSE c \in rows : TRUE).id) ELSE None

existingConv(uid, post) ==
  LET rows == {c \in bazaar_conversations :
                 /\ CanViewConversation(uid, c)
                 /\ c.post_id = post.id
                 /\ c.buyer_id = uid}
  IN IF Cardinality(rows) = 1 THEN Some((CHOOSE c \in rows : TRUE).id) ELSE None

\* ------------------------------------------------------------------------
\* Backend: seller_ratings and the aggregate on profiles
\* ------------------------------------------------------------------------
RatingsOf(rows, seller) == {r \in rows : r.seller_id = seller}

RECURSIVE SumRatings(_)
SumRatings(rows) ==
  IF rows = {} THEN 0
  ELSE LET r == CHOOSE x \in rows : TRUE IN r.rating + SumRatings(rows \ {r})

\* COALESCE(ROUND(AVG(rating)::numeric, 1), 0), in tenths
RoundedAverage_Truncated(rows) ==
  IF rows = {} THEN 0 ELSE (10 * SumRatings(rows)) \div Cardinality(rows)

RoundedAverage(rows) ==
  IF rows = {} THEN 0
  ELSE (20 * SumRatings(rows) + Cardinality(rows)) \div (2 * Cardinality(rows))

\* update_seller_rating(), run for each inserted, updated or deleted row:
\* the profile of the row's seller is recomputed from the table
AfterRatingTrigger(sellers, rows) ==
  [u \in Users |->
     IF u \in sellers
       THEN [seller_rating |-> RoundedAverage(RatingsOf(rows, u)),
             seller_rating_count |-> Cardinality(RatingsOf(rows, u))]
       ELSE profiles[u]]

\* policy "Buyers can rate" (FOR INSERT)
CanInsertRating(uid, r) == uid = r.buyer_id

\* seller_ratings has row level security enabled and no policy FOR UPDATE
CanUpdateRating(uid, r) == FALSE

\* the rows an upsert ON CONFLICT (buyer_id, post_id) collides with
RatingConflicts(r) ==
  {o \in seller_ratings : o.buyer_id = r.buyer_id /\ o.post_id = r.post_id}

\* the error of .upsert(ratingData, { onConflict: 'buyer_id,post_id' }),
\* NULL when the statement succeeds
UpsertRatingError(uid, r) ==
  IF ~updateGranted THEN "permission_denied"
  ELSE IF ~CanInsertRating(uid, r) THEN "rls"
  ELSE IF ~PostExists(r.post_id) THEN "foreign_key"
  ELSE IF \E o \in RatingConflicts(r) : ~CanUpdateRating(uid, o) THEN "rls"
  ELSE NULL

\* the table after a successful upsert of r, whose id is used for a new row
UpsertRating(r) ==
  IF RatingConflicts(r) = {}
    THEN seller_ratings \cup {r}
    ELSE {IF o \in RatingConflicts(r)
            THEN [o EXCEPT !.seller_id = r.seller_id, !.rating = r.rating,
                           !.review_text = r.review_text]
            ELSE o : o \in seller_ratings}

\* ------------------------------------------------------------------------
\* New-listing form (BazaarNewScreen)
\* ------------------------------------------------------------------------
FormFields == {"title", "price", "contact", "photo"}

\* forms a user may submit: a complete one and four incomplete ones
ListingForms ==
  { [title |-> <<" ", "a", " ">>, price |-> <<" ", "2">>, contact |-> <<"a">>, photo |-> TRUE],
    [title |-> <<"a">>, price |-> <<" ">>, contact |-> <<" ">>, photo |-> TRUE],
    [title |-> <<" ">>, price |-> <<"2">>, contact |-> <<"a">>, photo |-> TRUE],
    [title |-> <<"a">>, price |-> <<"x">>, contact |-> <<>>, photo |-> TRUE],
    [title |-> <<"a">>, price |-> <<>>, contact |-> <<"a">>, photo |-> FALSE] }

\* validate(): the fields whose check fails
validate_PhotoUnchecked(title, price, contact, photo) ==
  (IF Trim(title) = <<>> THEN {"title"} ELSE {})
    \cup (IF Trim(price) = <<>> \/ NumberIsNaN(price) THEN {"price"} ELSE {})
    \cup (IF Trim(contact) = <<>> THEN {"contact"} ELSE {})

validate(title, price, contact, photo) ==
  (IF Trim(title) = <<>> THEN {"title"} ELSE {})
    \cup (IF Trim(price) = <<>> \/ NumberIsNaN(price) THEN {"price"} ELSE {})
    \cup (IF Trim(contact) = <<>> THEN {"contact"} ELSE {})
    \cup (IF ~photo THEN {"photo"} ELSE {})

\* the form as it is mounted, and the requests it has issued
NoForm == [title |-> <<>>, price |-> <<>>, contact |-> <<>>, photo |-> FALSE]
NoRequests == [upload |-> 0, insert |-> 0]

\* setTitle, setPrice, setContact, pickPhoto: the user fills the form
FillForm(f) ==
  /\ form' = f
  /\ UNCHANGED <<dbVars, nextId, clock, errors, requests, exceptForm>>

\* what the submission runs into once the form is valid
SubmitOutcomes == {"too_large", "upload_error", "insert_error", "ok"}

\* handleSubmit of the new-listing form by a signed-in user: validate()
\* stores the errors; when there are none the photo is uploaded (unless it
\* is over 5MB) and, when the upload succeeded, a row is inserted; on
\* success router.back() leaves the form. The insert names no status and no
\* sold_at.
NewListingSubmit(u, title, price, contact, photo, outcome) ==
  LET newErrors == validate(title, price, contact, photo)
      uploaded == outcome # "too_large"
      inserted == outcome \in {"insert_error", "ok"}
  IN
    /\ errors' = newErrors
    /\ IF newErrors = {}
         THEN /\ uploaded => requests.upload < MaxUploads
              /\ requests' = [upload |-> requests.upload + (IF uploaded THEN 1 ELSE 0),
                              insert |-> requests.insert + (IF inserted THEN 1 ELSE 0)]
              /\ IF outcome = "ok"
                   THEN /\ nextId.post <= MaxPosts
                        /\ bazaar_posts' =
                             bazaar_posts \cup {NewPostRow(PostId(nextId.post), u)}
                        /\ nextId' = [nextId EXCEPT !.post = @ + 1]
                        /\ form' = NoForm
                   ELSE UNCHANGED <<bazaar_posts, nextId, form>>
         ELSE /\ outcome = "ok"
              /\ UNCHANGED <<bazaar_posts, nextId, form, requests>>
    /\ UNCHANGED <<bazaar_conversations, bazaar_messages, seller_ratings, profiles,
                   clock, exceptForm>>

\* ------------------------------------------------------------------------
\* Listing detail screen (BazaarDetailScreen)
\* ------------------------------------------------------------------------
NoScreen == [user |-> NULL, post |-> None]

isOwner(d) ==
  /\ detail[d].user # NULL
  /\ detail[d].post # None
  /\ detail[d].user = detail[d].post[1].user_id

\* mount + loadPost: the screen keeps the row it read
LoadPost(d, u, pid) ==
  /\ PostExists(pid)
  /\ detail' = [detail EXCEPT ![d] = [user |-> u, post |-> Some(PostRow(pid))]]
  /\ UNCHANGED <<dbVars, clock, exceptDetail>>

\* leaving the screen
CloseDetail(d) ==
  /\ detail[d] # NoScreen
  /\ detail' = [detail EXCEPT ![d] = NoScreen]
  /\ UNCHANGED <<dbVars, clock, exceptDetail>>

\* handleMarkAsSold, confirmed in the alert. The button is rendered for the
\* owner while the row held by the screen is not sold.
handleMarkAsSold(d) ==
  /\ isOwner(d)
  /\ detail[d].post[1].status # "sold"
  /\ bazaar_posts' =
       {IF r.id = detail[d].post[1].id THEN MarkSoldUpdate(r, clock) ELSE r :
          r \in bazaar_posts}
  /\ detail' = [detail EXCEPT ![d].post = Some(MarkSoldUpdate(@[1], clock))]
  /\ UNCHANGED <<bazaar_conversations, bazaar_messages, seller_ratings, profiles,
                 nextId, clock, exceptDetail>>

\* handleDelete, confirmed in the alert: the row is deleted, the rows that
\* reference it follow their ON DELETE rule, and the screen is left.
handleDelete(d) ==
  /\ isOwner(d)
  /\ LET pid == detail[d].post[1].id IN
       /\ bazaar_posts' = {r \in bazaar_posts : r.id # pid}
       /\ bazaar_conversations' = CascadeConversations(pid)
       /\ bazaar_messages' = CascadeMessages(pid)
       /\ seller_ratings' = SetNullRatings(pid)
       /\ profiles' = AfterRatingTrigger(
                        {r.seller_id : r \in {x \in seller_ratings : x.post_id = pid}},
                        SetNullRatings(pid))
  /\ detail' = [detail EXCEPT ![d] = NoScreen]
  /\ UNCHANGED <<nextId, clock, exceptDetail>>

\* ------------------------------------------------------------------------
\* Rate-seller screen (RateSellerScreen)
\* ------------------------------------------------------------------------
NoRateScreen == [user |-> NULL, post |-> None, existingRating |-> None,
                 sent |-> None, hadRow |-> FALSE, outcome |-> NULL]

\* "Rate this Seller" is rendered for a signed-in user who is not the owner
\* of a sold listing; the screen then runs loadData: the listing and the
\* user's rating of it, if any
OpenRateSeller(d, u, pid) ==
  /\ PostExists(pid)
  /\ PostRow(pid).status = "sold"
  /\ u # PostRow(pid).user_id
  /\ LET mine == {r \in seller_ratings : r.buyer_id = u /\ r.post_id = pid}
     IN rate' = [rate EXCEPT ![d] =
          [NoRateScreen EXCEPT
             !.user = u,
             !.post = Some(PostRow(pid)),
             !.existingRating =
               IF Cardinality(mine) = 1
                 THEN Some((CHOOSE r \in mine : TRUE).rating) ELSE None]]
  /\ UNCHANGED <<dbVars, clock, exceptRate, updateGranted>>

\* ratingData of handleSubmit
ratingData(d, rating, reviewText) ==
  [id |-> RatingId(rate[d].user, rate[d].post[1].id),
   seller_id |-> rate[d].post[1].user_id,
   buyer_id |-> rate[d].user,
   post_id |-> rate[d].post[1].id,
   rating |-> rating,
   review_text |-> IF Trim(reviewText) = <<>> THEN None ELSE Some(Trim(reviewText))]

\* handleSubmit with the stars and the text the user has entered
RateSellerSubmit(d, rating, reviewText) ==
  /\ rate[d].user # NULL
  /\ rate[d].post # None
  /\ IF rating = 0
       THEN /\ rate' = [rate EXCEPT ![d].outcome = "Rating required"]
            /\ UNCHANGED dbVars
       ELSE LET r == ratingData(d, rating, reviewText)
                err == UpsertRatingError(rate[d].user, r)
            IN /\ rate' = [rate EXCEPT
                     ![d].sent = Some(r),
                     ![d].hadRow = (RatingConflicts(r) # {}),
                     ![d].outcome = IF err = NULL THEN "Thank you!" ELSE "Error"]
               /\ IF err = NULL
                    THEN /\ seller_ratings' = UpsertRating(r)
                         /\ profiles' = AfterRatingTrigger({r.seller_id}, UpsertRating(r))
                    ELSE UNCHANGED <<seller_ratings, profiles>>
               /\ UNCHANGED <<bazaar_posts, bazaar_conversations, bazaar_messages, nextId>>
  /\ UNCHANGED <<clock, exceptRate, updateGranted>>

\* the screen is left (router.back())
CloseRateSeller(d) ==
  /\ rate[d] # NoRateScreen
  /\ rate' = [rate EXCEPT ![d] = NoRateScreen]
  /\ UNCHANGED <<dbVars, clock, exceptRate, updateGranted>>

\* time passes
Tick ==
  /\ clock < MaxTime
  /\ clock' = clock + 1
  /\ UNCHANGED <<dbVars, errors, form, requests, detail, callVars, rateVars, chatVars,
                 viewVars, appVars>>

\* ------------------------------------------------------------------------
\* Backend: bazaar_messages
\* ------------------------------------------------------------------------
\* EXISTS (SELECT 1 FROM bazaar_conversations WHERE id = conversation_id
\*         AND (buyer_id = auth.uid() OR seller_id = auth.uid()))
IsParticipant(uid, cid) ==
  \E c \in bazaar_conversations :
     c.id = cid /\ (c.buyer_id = uid \/ c.seller_id = uid)

\* policy "Participants can view messages"
CanViewMessage(uid, m) == IsParticipant(uid, m.conversation_id)

\* policy "Participants can send messages"
CanSendMessage_SenderUnchecked(uid, m) == IsParticipant(uid, m.conversation_id)

CanSendMessage(uid, m) ==
  uid = m.sender_id /\ IsParticipant(uid, m.conversation_id)

\* policy "Recipients can mark as read"
CanUpdateMessage(uid, m) == IsParticipant(uid, m.conversation_id)

\* the row of an INSERT that gives conversation_id, sender_id and content:
\* is_read and created_at take their defaults
NewMessageRow(n, cid, sender, content) ==
  [id |-> MsgId(n), conversation_id |-> cid, sender_id |-> sender,
   content |-> content, is_read |-> FALSE, created_at |-> clock]

\* trigger update_conversation_timestamp, AFTER INSERT ON bazaar_messages
update_conversation_timestamp(m) ==
  {IF c.id = m.conversation_id THEN [c EXCEPT !.last_message_at = m.created_at]
   ELSE c : c \in bazaar_conversations}

MessageRow(id) == CHOOSE m \in bazaar_messages : m.id = id

\* the orders in which a set of rows can be returned
RECURSIVE Orderings(_)
Orderings(rows) ==
  IF rows = {} THEN {<<>>}
  ELSE UNION {{<<m.id>> \o s : s \in Orderings(rows \ {m})} : m \in rows}

\* .select('*').eq('conversation_id', cid).order('created_at', ascending)
\* as user uid: the visible rows of the conversation, oldest first; rows of
\* equal created_at come in an order the database does not fix
SelectMessages(uid, cid) ==
  LET rows == {m \in bazaar_messages :
                 CanViewMessage(uid, m) /\ m.conversation_id = cid}
  IN {s \in Orderings(rows) :
        \A i \in 1..(Len(s) - 1) :
           MessageRow(s[i]).created_at <= MessageRow(s[i + 1]).created_at}

\* the count query of the inbox: .eq('conversation_id', cid)
\* .eq('is_read', false).neq('sender_id', uid), as user uid
UnreadCount(rows, uid, cid) ==
  Cardinality({m \in rows :
                 /\ CanViewMessage(uid, m)
                 /\ m.conversation_id = cid
                 /\ m.is_read = FALSE
                 /\ m.sender_id # uid})

\* the rows markMessagesAsRead updates as user uid
UnreadInbound_OwnMessages(rows, uid, cid) ==
  {m \in rows :
     /\ CanUpdateMessage(uid, m)
     /\ m.conversation_id = cid
     /\ m.sender_id = uid
     /\ m.is_read = FALSE}

UnreadInbound(rows, uid, cid) ==
  {m \in rows :
     /\ CanUpdateMessage(uid, m)
     /\ m.conversation_id = cid
     /\ m.sender_id # uid
     /\ m.is_read = FALSE}

\* the table after markMessagesAsRead of user uid in conversation cid:
\* UPDATE bazaar_messages SET is_read = true WHERE conversation_id = cid
\* AND sender_id <> uid AND is_read = false
BulkMarkRead_Toggle(rows, uid, cid) ==
  {IF CanUpdateMessage(uid, m) /\ m.conversation_id = cid /\ m.sender_id # uid
     THEN [m EXCEPT !.is_read = ~m.is_read]
     ELSE m : m \in rows}

BulkMarkRead(rows, uid, cid) ==
  {IF m \in UnreadInbound(rows, uid, cid) THEN [m EXCEPT !.is_read = TRUE]
   ELSE m : m \in rows}

\* the table after markMessageAsRead(id) of user uid:
\* UPDATE bazaar_messages SET is_read = true WHERE id = id
MarkOneRead(rows, uid, id) ==
  {IF CanUpdateMessage(uid, m) /\ m.id = id THEN [m EXCEPT !.is_read = TRUE]
   ELSE m : m \in rows}

\* ------------------------------------------------------------------------
\* Chat screen (ChatScreen)
\* ------------------------------------------------------------------------
\* messages and the data of a fetch hold message rows by their id; an event
\* carries the inserted row (payload.new)
NoChat == [mounted |-> FALSE, user |-> NULL, conversationId |-> NULL,
           messages |-> <<>>, newMessage |-> <<>>, loading |-> TRUE,
           sending |-> FALSE, open |-> 0, subscription |-> "closed",
           conversation |-> "idle", fetches |-> {}]

\* Requests on their way form a multiset: equal requests are told apart by
\* a tag that counts them, and the one with the highest tag is served first
\* (which of several equal requests is served makes no difference).
Copies(S, r) ==
  Cardinality({x \in S : [x EXCEPT !.tag = 0] = [r EXCEPT !.tag = 0]})
Pending(S, r) == S \cup {[r EXCEPT !.tag = Copies(S, r) + 1]}
IsLatest(S, r) == r \in S /\ r.tag = Copies(S, r)

\* the effect's cleanup: subscription.unsubscribe() closes the channel the
\* effect opened (open counts the instance's open channels)
unsubscribe_Skipped(screen) == screen

unsubscribe(screen) ==
  [screen EXCEPT !.open = IF @ > 0 THEN @ - 1 ELSE 0, !.subscription = "closed"]

\* the screen is left: the effect's cleanup runs, and responses that arrive
\* later find no screen to update
LeaveChat ==
  /\ chat' = [NoChat EXCEPT !.open = unsubscribe(chat).open,
                            !.subscription = unsubscribe(chat).subscription]
  /\ events' = <<>>
  /\ sends' = LET live == {s \in sends : s.live} IN
                IF live = {} THEN sends
                ELSE Pending(sends \ live,
                             [(CHOOSE s \in live : TRUE) EXCEPT !.live = FALSE])

\* the body of the effect of [conversationId, user], run on screen for user
\* u and conversation cid: loadConversation(), loadMessages() and
\* markMessagesAsRead() are started without being awaited, then the channel
\* is subscribed
EffectBody(screen, u, cid) ==
  /\ Cardinality(reads) < MaxPending
  /\ Cardinality(screen.fetches) < MaxPending
  /\ chat' = [screen EXCEPT
                !.user = u, !.conversationId = cid,
                !.conversation = "sent",
                !.fetches = Pending(@, [tag |-> 0, user |-> u,
                                        conversation_id |-> cid,
                                        phase |-> "sent", data |-> <<>>]),
                !.open = @ + 1, !.subscription = "joining"]
  /\ reads' = Pending(reads, [tag |-> 0, kind |-> "all", user |-> u,
                               conversation_id |-> cid, id |-> NULL])
  /\ events' = <<>>

\* the screen is mounted for signed-in user u on route parameter cid
ChatMount(u, cid) ==
  /\ ~chat.mounted
  /\ EffectBody([NoChat EXCEPT !.mounted = TRUE], u, cid)
  /\ UNCHANGED <<dbVars, nextId, clock, sends, marked, exceptChat>>

\* the screen is mounted on route parameter cid while useSession has no
\* session yet: user is null and the effect body is skipped
ChatMountSignedOut(cid) ==
  /\ ~chat.mounted
  /\ chat' = [NoChat EXCEPT !.mounted = TRUE, !.conversationId = cid]
  /\ UNCHANGED <<dbVars, nextId, clock, events, reads, sends, marked, exceptChat>>

\* useSession delivers the session of user u: the effect runs
SessionResolved(u) ==
  /\ chat.mounted
  /\ chat.user = NULL
  /\ EffectBody(chat, u, chat.conversationId)
  /\ UNCHANGED <<dbVars, nextId, clock, sends, marked, exceptChat>>

\* useSession hands out a new user object (same user, refreshed session):
\* the dependency [conversationId, user] has changed, so the cleanup of the
\* previous run is called and the body runs again; component state is kept
EffectRerun ==
  /\ chat.mounted
  /\ chat.user # NULL
  /\ EffectBody(unsubscribe(chat), chat.user, chat.conversationId)
  /\ UNCHANGED <<dbVars, nextId, clock, sends, marked, exceptChat>>

\* the channel is joined: inserts from now on are delivered
SubscriptionJoined ==
  /\ chat.subscription = "joining"
  /\ chat' = [chat EXCEPT !.subscription = "joined"]
  /\ UNCHANGED <<dbVars, nextId, clock, events, reads, sends, marked, exceptChat>>

\* loadConversation answered: router.back() when no row is returned, else
\* the row fills the header (a run started while one is on its way is
\* answered together with it)
LoadConversationAnswered ==
  /\ chat.conversation = "sent"
  /\ IF \E c \in bazaar_conversations :
          c.id = chat.conversationId /\ CanViewConversation(chat.user, c)
       THEN /\ chat' = [chat EXCEPT !.conversation = "done"]
            /\ UNCHANGED <<events, sends>>
       ELSE LeaveChat
  /\ UNCHANGED <<dbVars, nextId, clock, reads, marked, exceptChat>>

\* loadMessages, the moment the database runs the select
HistoryExecuted(f) ==
  /\ IsLatest(chat.fetches, f)
  /\ f.phase = "sent"
  /\ \E s \in SelectMessages(f.user, f.conversation_id) :
       chat' = [chat EXCEPT
                  !.fetches = Pending(@ \ {f}, [f EXCEPT !.tag = 0,
                                                         !.phase = "answered",
                                                         !.data = s])]
  /\ UNCHANGED <<dbVars, nextId, clock, events, reads, sends, marked, exceptChat>>

\* loadMessages, the continuation: setMessages(data); setLoading(false)
HistoryApplied(f) ==
  /\ f \in chat.fetches
  /\ f.phase = "answered"
  /\ chat' = [chat EXCEPT !.fetches = @ \ {f}, !.messages = f.data,
                          !.loading = FALSE]
  /\ UNCHANGED <<dbVars, nextId, clock, events, reads, sends, marked, exceptChat>>

\* if (newMsg.sender_id !== user.id) markMessageAsRead(newMsg.id)
ShouldMarkRead_Always(newMsg, uid) == TRUE

ShouldMarkRead(newMsg, uid) == newMsg.sender_id # uid

\* the subscription callback for one delivered insert
EventDelivered ==
  /\ chat.subscription = "joined"
  /\ events # <<>>
  /\ LET newMsg == Head(events) IN
       /\ chat' = [chat EXCEPT !.messages = Append(@, newMsg.id)]
       /\ IF ShouldMarkRead(newMsg, chat.user)
            THEN /\ Cardinality(reads) < MaxPending
                 /\ reads' = Pending(reads,
                      [tag |-> 0, kind |-> "one", user |-> chat.user,
                       conversation_id |-> newMsg.conversation_id,
                       id |-> newMsg.id])
            ELSE reads' = reads
  /\ events' = Tail(events)
  /\ UNCHANGED <<dbVars, nextId, clock, sends, marked, exceptChat>>

\* markMessagesAsRead, the moment the database runs the update
markMessagesAsRead(r) ==
  /\ IsLatest(reads, r)
  /\ r.kind = "all"
  /\ bazaar_messages' = BulkMarkRead(bazaar_messages, r.user, r.conversation_id)
  /\ reads' = reads \ {r}
  /\ marked' =
       IF marked # None /\ marked[1].user = r.user
                        /\ marked[1].conversation_id = r.conversation_id
         THEN Some([marked[1] EXCEPT !.twice = TRUE])
         ELSE Some([user |-> r.user, conversation_id |-> r.conversation_id,
                    before |-> UnreadCount(bazaar_messages, r.user,
                                           r.conversation_id),
                    after |-> bazaar_messages', twice |-> FALSE])
  /\ UNCHANGED <<bazaar_posts, bazaar_conversations, seller_ratings, profiles,
                 nextId, clock, chat, events, sends, exceptChat>>

\* markMessageAsRead(id), the moment the request is answered: the database
\* has run the update (ok) or the request has failed; the code awaits the
\* call and looks at neither data nor error
markMessageAsRead(r, ok) ==
  /\ IsLatest(reads, r)
  /\ r.kind = "one"
  /\ IF ok THEN /\ bazaar_messages' = MarkOneRead(bazaar_messages, r.user, r.id)
                /\ marked' = None
           ELSE UNCHANGED <<bazaar_messages, marked>>
  /\ reads' = reads \ {r}
  /\ UNCHANGED <<bazaar_posts, bazaar_conversations, seller_ratings, profiles,
                 nextId, clock, chat, events, sends, exceptChat>>

\* INSERT INTO bazaar_messages as user uid: the row is stored with its
\* defaults, the trigger stamps the conversation, and the insert is published
\* to the subscription when it is joined to that conversation
InsertMessage(m) ==
  /\ bazaar_messages' = bazaar_messages \cup {m}
  /\ bazaar_conversations' = update_conversation_timestamp(m)
  /\ nextId' = [nextId EXCEPT !.message = @ + 1]
  /\ events' = IF /\ chat.subscription = "joined"
                  /\ chat.conversationId = m.conversation_id
                  /\ CanViewMessage(chat.user, m)
                 THEN Append(events, m) ELSE events
  /\ marked' = None

\* the text input
TypeDraft(text) ==
  /\ chat.mounted
  /\ chat' = [chat EXCEPT !.newMessage = text]
  /\ UNCHANGED <<dbVars, nextId, clock, events, reads, sends, marked, exceptChat>>

\* if (!user || !newMessage.trim() || sending) return
CanSend_SignedOut(screen) ==
  Trim(screen.newMessage) # <<>> /\ ~screen.sending

CanSend(screen) ==
  screen.user # NULL /\ Trim(screen.newMessage) # <<>> /\ ~screen.sending

\* sendMessage up to the insert request
sendMessage ==
  /\ chat.mounted
  /\ CanSend(chat)
  /\ Cardinality(sends) < MaxPending
  /\ chat' = [chat EXCEPT !.sending = TRUE, !.newMessage = <<>>]
  /\ sends' = Pending(sends, [tag |-> 0, user |-> chat.user,
                               conversation_id |-> chat.conversationId,
                               content |-> Trim(chat.newMessage), live |-> TRUE])
  /\ UNCHANGED <<dbVars, nextId, clock, events, reads, marked, exceptChat>>

\* if (error) setNewMessage(messageContent): the draft after the insert is
\* answered
DraftAfterSend_Kept(draft, messageContent, error) == draft

DraftAfterSend(draft, messageContent, error) ==
  IF error THEN messageContent ELSE draft

\* sendMessage from the insert on: the request reaches the database or fails
\* on the way (reached), the database accepts or rejects the row, then
\* setSending(false) and the draft is put back when there is an error
SendAnswered(s, reached) ==
  /\ IsLatest(sends, s)
  /\ LET m == NewMessageRow(nextId.message, s.conversation_id, s.user, s.content)
         ok == reached /\ CanSendMessage(s.user, m)
     IN /\ ok => nextId.message <= MaxMsgs
        /\ IF ok THEN InsertMessage(m)
                 ELSE UNCHANGED <<bazaar_messages, bazaar_conversations, nextId,
                                  events, marked>>
        /\ chat' = IF s.live
                     THEN [chat EXCEPT !.sending = FALSE,
                                       !.newMessage =
                                          DraftAfterSend(@, s.content, ~ok)]
                     ELSE chat
  /\ sends' = sends \ {s}
  /\ UNCHANGED <<bazaar_posts, seller_ratings, profiles, clock, reads, exceptChat>>

\* sendMessage completed on another device by participant u
PeerSend(u, cid, content) ==
  /\ nextId.message <= MaxMsgs
  /\ LET m == NewMessageRow(nextId.message, cid, u, content) IN
       /\ CanSendMessage(u, m)
       /\ InsertMessage(m)
  /\ UNCHANGED <<bazaar_posts, seller_ratings, profiles, clock, chat, reads,
                 sends, exceptChat>>

\* the screen is left
ChatUnmount ==
  /\ chat.mounted
  /\ LeaveChat
  /\ UNCHANGED <<dbVars, nextId, clock, reads, marked, exceptChat>>

\* ------------------------------------------------------------------------
\* Session (useSession) and the auth redirect of the root layout
\* ------------------------------------------------------------------------
\* backend: the session the auth client holds (NULL or the user);
\* reading/result: getSession() not yet answered, answered with result and
\* its then() not yet run, or done; events: sessions passed to the
\* onAuthStateChange callback and not yet delivered; session, loading: the
\* state of useSession; route: the group of the current route; effectDue:
\* a dependency of the redirect effect has changed since it ran
NoAuth == [backend |-> NULL, reading |-> "done", result |-> NULL, events |-> <<>>,
           initial |-> TRUE, session |-> NULL, loading |-> FALSE, route |-> "auth",
           effectDue |-> FALSE, changes |-> 0]

\* the marketplace screen before it is mounted: posts is the list of row
\* ids, closure the loading and hasMore the focus callback was created with
\* (useCallback(..., [user])), requests the post queries on their way
NoFeed == [mounted |-> FALSE, posts |-> <<>>, hasMore |-> TRUE, page |-> 0,
           loading |-> TRUE, refreshing |-> FALSE,
           closure |-> [loading |-> TRUE, hasMore |-> TRUE], requests |-> {}]

NoReviews ==
  [table |-> {}, next |-> 1, phase |-> "closed", user |-> NULL,
   loading |-> TRUE, list |-> {}, userReview |-> None,
   showReviewModal |-> FALSE, reviewRating |-> 0, submitting |-> FALSE,
   loads |-> 0, details |-> 0, writes |-> <<>>]

\* supabase.auth.getSession() reads the session the client holds
GetSessionRead ==
  /\ auth.reading = "pending"
  /\ auth' = [auth EXCEPT !.reading = "read", !.result = auth.backend]
  /\ UNCHANGED <<feed, reviews, exceptApp>>

\* .then(({ data }) => { setSession(data.session ?? null); setLoading(false) })
GetSessionThen ==
  /\ auth.reading = "read"
  /\ auth' = [auth EXCEPT !.reading = "done", !.session = auth.result,
                          !.loading = FALSE,
                          !.effectDue = @ \/ auth.loading \/ auth.session # auth.result]
  /\ UNCHANGED <<feed, reviews, exceptApp>>

\* the client passes its session to a newly registered callback
EmitInitialSession ==
  /\ ~auth.initial
  /\ auth' = [auth EXCEPT !.initial = TRUE, !.events = Append(@, auth.backend)]
  /\ UNCHANGED <<feed, reviews, exceptApp>>

\* sign-in on the login screen, sign-out on the profile screen: the client
\* holds the next session and passes it to the callback
AuthChange(next) ==
  /\ auth.changes < MaxAuthChanges
  /\ next # auth.backend
  /\ auth.route = (IF next = NULL THEN "app" ELSE "auth")
  /\ auth' = [auth EXCEPT !.backend = next, !.events = Append(@, next),
                          !.changes = @ + 1]
  /\ UNCHANGED <<feed, reviews, exceptApp>>

\* onAuthStateChange((_event, nextSession) => { setSession(nextSession);
\* setLoading(false) })
AuthEventDelivered ==
  /\ auth.events # <<>>
  /\ auth' = [auth EXCEPT !.events = Tail(@), !.session = Head(auth.events),
                          !.loading = FALSE,
                          !.effectDue = @ \/ auth.loading
                                          \/ auth.session # Head(auth.events)]
  /\ UNCHANGED <<feed, reviews, exceptApp>>

\* the route the redirect effect of RootLayoutNav leaves the app on
RedirectTarget(loading, user, route) ==
  IF loading THEN route
  ELSE IF user = NULL /\ route # "auth" THEN "auth"
  ELSE IF user # NULL /\ route = "auth" THEN "app"
  ELSE route

\* useEffect(..., [user, loading, segments, router]) of RootLayoutNav
RedirectEffect ==
  /\ auth.effectDue
  /\ LET target == RedirectTarget(auth.loading, auth.session, auth.route) IN
       auth' = [auth EXCEPT !.route = target, !.effectDue = target # auth.route]
  /\ UNCHANGED <<feed, reviews, exceptApp>>

\* ------------------------------------------------------------------------
\* Price labels (BazaarScreen card, BazaarDetailScreen)
\* ------------------------------------------------------------------------
\* price is a number of cents; card and detail are <<>> until the label is
\* rendered, then <<r>> with r the value formatPrice returned
NoPriceView == [price |-> None, currency |-> None, card |-> <<>>, detail |-> <<>>]

\* const symbols = { CAD: 'C$', USD: '$', EUR: '€' }; symbols[currency] || '$'
CurrencySymbol(currency) ==
  CASE currency = "CAD" -> "C$"
    [] currency = "USD" -> "$"
    [] currency = "EUR" -> "€"
    [] OTHER -> "$"

\* !currency: null and the empty string are falsy
NoCurrency(currency) == currency = None \/ currency = Some("")

\* Number.prototype.toFixed(0) of a non-negative amount of cents: the nearest
\* integer, the larger one when two are equally near
ToFixed0(cents) == ToString((cents + 50) \div 100)

\* Number.prototype.toFixed(2) of a non-negative amount of cents
ToFixed2(cents) ==
  ToString(cents \div 100) \o "." \o ToString((cents % 100) \div 10)
    \o ToString(cents % 10)

\* formatPrice of BazaarScreen (the grid card)
formatPrice(price, currency) ==
  IF price = None \/ NoCurrency(currency) THEN Some("Contact for price")
  ELSE Some(CurrencySymbol(currency[1]) \o ToFixed0(price[1]))

\* formatPrice of BazaarDetailScreen
formatPriceDetail(price, currency) ==
  IF price = None \/ NoCurrency(currency) THEN None
  ELSE Some(CurrencySymbol(currency[1]) \o ToFixed2(price[1]) \o " " \o currency[1])

\* the grid renders the card of the post: {formatPrice(item.price, item.currency)}
RenderCard ==
  /\ priceView.card = <<>>
  /\ priceView' = [priceView EXCEPT
                     !.card = <<formatPrice(priceView.price, priceView.currency)>>]
  /\ UNCHANGED <<dbVars, clock, inbox, seen, exceptViews>>

\* the detail screen renders the price line of the post
RenderPriceDetail ==
  /\ priceView.detail = <<>>
  /\ priceView' = [priceView EXCEPT
                     !.detail = <<formatPriceDetail(priceView.price, priceView.currency)>>]
  /\ UNCHANGED <<dbVars, clock, inbox, seen, exceptViews>>

\* the screens are left
ClosePriceViews ==
  /\ priceView.card # <<>> \/ priceView.detail # <<>>
  /\ priceView' = [priceView EXCEPT !.card = <<>>, !.detail = <<>>]
  /\ UNCHANGED <<dbVars, clock, inbox, seen, exceptViews>>

\* ------------------------------------------------------------------------
\* Inbox screen (ConversationsScreen)
\* ------------------------------------------------------------------------
PAGE_SIZE == 10

\* conversations holds items [id, last_message_at, unread_count]; closure is
\* the render whose loadConversations the focus callback calls (the callback
\* is rebuilt only when user changes); request is the list query in flight;
\* queried tells whether the latest focus issued a list query
NoInbox == [mounted |-> FALSE, focused |-> FALSE, user |-> NULL,
            conversations |-> <<>>, loading |-> TRUE, refreshing |-> FALSE,
            hasMore |-> TRUE, page |-> 0,
            closure |-> [loading |-> TRUE, hasMore |-> TRUE],
            request |-> None, queried |-> FALSE]

\* the state of the screen after loadConversations(pageNum, shouldRefresh) has
\* run up to its await, called from a render with the given loading and
\* hasMore: the three early returns, else setLoading(true) and the query
loadConversations(screen, loading, hasMore, pageNum, shouldRefresh) ==
  IF screen.user = NULL THEN screen
  ELSE IF loading /\ ~shouldRefresh THEN screen
  ELSE IF ~hasMore /\ ~shouldRefresh THEN screen
  ELSE [screen EXCEPT !.loading = TRUE, !.queried = TRUE,
                      !.request = Some([pageNum |-> pageNum,
                                        shouldRefresh |-> shouldRefresh])]

\* the screen is opened by signed-in user u and is focused: useFocusEffect
\* runs its callback, if (user) loadConversations()
InboxOpen(u) ==
  /\ ~inbox.mounted
  /\ LET screen == [NoInbox EXCEPT !.mounted = TRUE, !.focused = TRUE, !.user = u]
     IN inbox' = loadConversations(screen, screen.closure.loading,
                                   screen.closure.hasMore, 0, FALSE)
  /\ UNCHANGED <<dbVars, clock, priceView, seen, exceptViews>>

\* another screen is pushed over the inbox
InboxBlur ==
  /\ inbox.mounted /\ inbox.focused
  /\ inbox' = [inbox EXCEPT !.focused = FALSE, !.queried = FALSE]
  /\ UNCHANGED <<dbVars, clock, priceView, seen, exceptViews>>

\* the inbox gains focus again: the focus callback runs once more
InboxFocus ==
  /\ inbox.mounted /\ ~inbox.focused
  /\ inbox' = loadConversations([inbox EXCEPT !.focused = TRUE, !.queried = FALSE],
                                inbox.closure.loading, inbox.closure.hasMore,
                                0, FALSE)
  /\ UNCHANGED <<dbVars, clock, priceView, seen, exceptViews>>

\* .or(buyer_id.eq.uid, seller_id.eq.uid).order('last_message_at',
\* { ascending: false }).range(from, to) as user uid: the pages the database
\* can return (rows of equal last_message_at come in an order it does not fix)
SelectConversations(uid, from, to) ==
  LET rows == {c \in bazaar_conversations :
                 CanViewConversation(uid, c)
                   /\ (c.buyer_id = uid \/ c.seller_id = uid)}
      row(id) == CHOOSE c \in rows : c.id = id
      sorted == {s \in Orderings(rows) :
                   \A i \in 1..(Len(s) - 1) :
                      row(s[i]).last_message_at >= row(s[i + 1]).last_message_at}
  IN {SubSeq(s, from + 1, IF to + 1 < Len(s) THEN to + 1 ELSE Len(s)) : s \in sorted}

\* the list item built for a returned conversation, with the unread count of
\* its own count query
ConversationWithDetails(uid, id) ==
  LET c == CHOOSE c \in bazaar_conversations : c.id = id
  IN [id |-> id, last_message_at |-> c.last_message_at,
      unread_count |-> UnreadCount(bazaar_messages, uid, id)]

\* loadConversations from the answer of the list query on. Every returned
\* conversation has its post (foreign key) and the other user's profile.
LoadConversationsAnswered ==
  /\ inbox.request # None
  /\ LET req == inbox.request[1]
         from == req.pageNum * PAGE_SIZE
     IN \E convData \in SelectConversations(inbox.user, from, from + PAGE_SIZE - 1) :
          LET items == [i \in 1..Len(convData) |->
                          ConversationWithDetails(inbox.user, convData[i])]
          IN inbox' =
               IF convData = <<>>
                 THEN [inbox EXCEPT
                         !.conversations = IF req.shouldRefresh THEN <<>> ELSE @,
                         !.hasMore = FALSE, !.loading = FALSE,
                         !.refreshing = FALSE, !.request = None]
                 ELSE [inbox EXCEPT
                         !.conversations = IF req.shouldRefresh THEN items
                                           ELSE @ \o items,
                         !.page = IF req.shouldRefresh THEN 0 ELSE req.pageNum,
                         !.hasMore = (Len(convData) = PAGE_SIZE),
                         !.loading = FALSE, !.refreshing = FALSE,
                         !.request = None]
  /\ UNCHANGED <<dbVars, clock, priceView, seen, exceptViews>>

\* pull-to-refresh: the RefreshControl belongs to the list, which is rendered
\* when loading is false and the list is not empty
onRefresh ==
  /\ inbox.focused
  /\ ~inbox.loading /\ inbox.conversations # <<>>
  /\ inbox' = loadConversations([inbox EXCEPT !.refreshing = TRUE],
                                inbox.loading, inbox.hasMore, 0, TRUE)
  /\ UNCHANGED <<dbVars, clock, priceView, seen, exceptViews>>

\* the back button of the inbox
InboxClose ==
  /\ inbox.mounted /\ inbox.focused
  /\ inbox' = NoInbox
  /\ UNCHANGED <<dbVars, clock, priceView, seen, exceptViews>>

\* ------------------------------------------------------------------------
\* Initial state: empty tables, no screen open
\* ------------------------------------------------------------------------
NoCall == [pc |-> "idle", user |-> NULL, post |-> None, nav |-> NULL,
           error |-> NULL, created |-> FALSE, prev |-> NULL]

InitEmpty ==
  /\ bazaar_posts = {}
  /\ bazaar_conversations = {}
  /\ bazaar_messages = {}
  /\ seller_ratings = {}
  /\ profiles = [u \in Users |-> [seller_rating |-> 0, seller_rating_count |-> 0]]
  /\ nextId = [post |-> 1, conversation |-> 1, message |-> 1]
  /\ clock = 0
  /\ errors = {}
  /\ detail = [d \in Devices |-> NoScreen]
  /\ calls = [i \in 1..MaxCalls |-> NoCall]
  /\ lastNav = {}
  /\ rate = [d \in Devices |-> NoRateScreen]
  /\ chat = NoChat
  /\ events = <<>>
  /\ reads = {}
  /\ sends = {}
  /\ marked = None
  /\ form = NoForm
  /\ requests = NoRequests
  /\ priceView = NoPriceView
  /\ inbox = NoInbox
  /\ seen = {}
  /\ auth = NoAuth
  /\ feed = NoFeed
  /\ reviews = NoReviews
  /\ updateGranted = TRUE

\* ------------------------------------------------------------------------
\* "Message seller" (BazaarDetailScreen.handleMessageSeller)
\* ------------------------------------------------------------------------
LastNavOf(u, pid) ==
  IF \E n \in lastNav : n.user = u /\ n.post = pid
    THEN (CHOOSE n \in lastNav : n.user = u /\ n.post = pid).conv
    ELSE NULL

Navigated(u, pid, cid) ==
  {n \in lastNav : ~(n.user = u /\ n.post = pid)}
    \cup {[user |-> u, post |-> pid, conv |-> cid]}

\* the button is pressed on device d: if (!user || !post) return; the lookup
\* request is issued for the user and the row the screen holds
MessageSellerStart(i, d) ==
  /\ calls[i].pc = "idle"
  /\ i > 1 => calls[i - 1].pc # "idle"
  /\ detail[d].user # NULL
  /\ detail[d].post # None
  /\ calls' = [calls EXCEPT ![i] =
       [NoCall EXCEPT !.pc = "lookup",
                      !.user = detail[d].user,
                      !.post = detail[d].post,
                      !.prev = LastNavOf(detail[d].user, detail[d].post[1].id)]]
  /\ UNCHANGED <<dbVars, clock, exceptCalls, lastNav>>

\* the lookup is answered: an existing conversation is opened, otherwise
\* the insert request is issued
MessageSellerLookup(i) ==
  /\ calls[i].pc = "lookup"
  /\ LET c == calls[i]
         found == existingConv(c.user, c.post[1])
     IN IF found # None
          THEN /\ calls' = [calls EXCEPT ![i].pc = "done", ![i].nav = found[1]]
               /\ lastNav' = Navigated(c.user, c.post[1].id, found[1])
          ELSE /\ calls' = [calls EXCEPT ![i].pc = "insert"]
               /\ UNCHANGED lastNav
  /\ UNCHANGED <<dbVars, clock, exceptCalls>>

\* the insert is answered: the new conversation is opened, or the alert
\* 'Unable to start conversation. Please try again.' is shown
MessageSellerInsert(i) ==
  /\ calls[i].pc = "insert"
  /\ LET c == calls[i]
         row == [id |-> ConvId(nextId.conversation),
                 post_id |-> c.post[1].id,
                 buyer_id |-> c.user,
                 seller_id |-> c.post[1].user_id,
                 last_message_at |-> clock]
         err == InsertConversationError(c.user, row)
     IN IF err = NULL
          THEN /\ bazaar_conversations' = bazaar_conversations \cup {row}
               /\ nextId' = [nextId EXCEPT !.conversation = @ + 1]
               /\ calls' = [calls EXCEPT ![i].pc = "done", ![i].nav = row.id,
                                         ![i].created = TRUE]
               /\ lastNav' = Navigated(c.user, row.post_id, row.id)
          ELSE /\ calls' = [calls EXCEPT ![i].pc = "done", ![i].error = err]
               /\ UNCHANGED <<bazaar_conversations, nextId, lastNav>>
  /\ UNCHANGED <<bazaar_posts, bazaar_messages, seller_ratings, profiles,
                 clock, exceptCalls>>

\* ------------------------------------------------------------------------
\* Listings: create, mark as sold, delete
\* ------------------------------------------------------------------------
EditListingForm == \E f \in ListingForms : FillForm(f)

SubmitListing ==
  \E u \in Users, outcome \in SubmitOutcomes :
    NewListingSubmit(u, form.title, form.price, form.contact, form.photo, outcome)

OpenListing ==
  \E d \in Devices, u \in Users, pid \in {r.id : r \in bazaar_posts} : LoadPost(d, u, pid)

LeaveListing == \E d \in Devices : CloseDetail(d)

MarkAsSold == \E d \in Devices : handleMarkAsSold(d)

DeleteListing == \E d \in Devices : handleDelete(d)

NextPost ==
  \/ EditListingForm
  \/ SubmitListing
  \/ OpenListing
  \/ LeaveListing
  \/ MarkAsSold
  \/ DeleteListing
  \/ Tick

SpecPost == InitEmpty /\ [][NextPost]_vars

\* ------------------------------------------------------------------------
\* Conversations: two listings exist, users open them and message the seller
\* ------------------------------------------------------------------------
InitListings ==
  /\ bazaar_posts = {NewPostRow(PostId(1), "u1"), NewPostRow(PostId(2), "u2")}
  /\ bazaar_conversations = {}
  /\ bazaar_messages = {}
  /\ seller_ratings = {}
  /\ profiles = [u \in Users |-> [seller_rating |-> 0, seller_rating_count |-> 0]]
  /\ nextId = [post |-> 3, conversation |-> 1, message |-> 1]
  /\ clock = 0
  /\ errors = {}
  /\ detail = [d \in Devices |-> NoScreen]
  /\ calls = [i \in 1..MaxCalls |-> NoCall]
  /\ lastNav = {}
  /\ rate = [d \in Devices |-> NoRateScreen]
  /\ chat = NoChat
  /\ events = <<>>
  /\ reads = {}
  /\ sends = {}
  /\ marked = None
  /\ form = NoForm
  /\ requests = NoRequests
  /\ priceView = NoPriceView
  /\ inbox = NoInbox
  /\ seen = {}
  /\ auth = NoAuth
  /\ feed = NoFeed
  /\ reviews = NoReviews
  /\ updateGranted = TRUE

PressMessageSeller == \E i \in 1..MaxCalls, d \in Devices : MessageSellerStart(i, d)

LookupAnswered == \E i \in 1..MaxCalls : MessageSellerLookup(i)

InsertAnswered == \E i \in 1..MaxCalls : MessageSellerInsert(i)

NextConv ==
  \/ OpenListing
  \/ PressMessageSeller
  \/ LookupAnswered
  \/ InsertAnswered

SpecConv == InitListings /\ [][NextConv]_vars

\* ------------------------------------------------------------------------
\* Ratings: sold listings exist, buyers rate their sellers
\* ------------------------------------------------------------------------
RatingInputs == {0, 1, 2}
\* the buyer's phone, whose rate-seller screen is followed, and the phone on
\* which listings are opened and deleted
RatingDevices == {"d1"}
SellerDevices == {"d2"}
ReviewInputs == {<<>>, <<" ", "a">>}

SoldPostRow(pid, uid) == MarkSoldUpdate(NewPostRow(pid, uid), 0)

InitSold ==
  /\ bazaar_posts = {SoldPostRow(PostId(1), "u1"), SoldPostRow(PostId(2), "u1"),
                     SoldPostRow(PostId(3), "u1")}
  /\ bazaar_conversations = {}
  /\ bazaar_messages = {}
  /\ seller_ratings = {}
  /\ profiles = [u \in Users |-> [seller_rating |-> 0, seller_rating_count |-> 0]]
  /\ nextId = [post |-> 4, conversation |-> 1, message |-> 1]
  /\ clock = 0
  /\ errors = {}
  /\ detail = [d \in Devices |-> NoScreen]
  /\ calls = [i \in 1..MaxCalls |-> NoCall]
  /\ lastNav = {}
  /\ rate = [d \in Devices |-> NoRateScreen]
  /\ chat = NoChat
  /\ events = <<>>
  /\ reads = {}
  /\ sends = {}
  /\ marked = None
  /\ form = NoForm
  /\ requests = NoRequests
  /\ priceView = NoPriceView
  /\ inbox = NoInbox
  /\ seen = {}
  /\ auth = NoAuth
  /\ feed = NoFeed
  /\ reviews = NoReviews
  /\ updateGranted \in BOOLEAN

OpenRating ==
  \E d \in RatingDevices, u \in Users, pid \in {r.id : r \in bazaar_posts} :
    OpenRateSeller(d, u, pid)

SubmitRating ==
  \E d \in RatingDevices, rating \in RatingInputs, reviewText \in ReviewInputs :
    RateSellerSubmit(d, rating, reviewText)

LeaveRating == \E d \in RatingDevices : CloseRateSeller(d)

\* a seller opens one of their listings
OpenSoldListing ==
  \E d \in SellerDevices, r \in bazaar_posts : LoadPost(d, r.user_id, r.id)

DeleteSoldListing == \E d \in SellerDevices : handleDelete(d)

NextRating ==
  \/ OpenRating
  \/ SubmitRating
  \/ LeaveRating
  \/ OpenSoldListing
  \/ DeleteSoldListing

SpecRating == InitSold /\ [][NextRating]_vars

\* ------------------------------------------------------------------------
\* Chat: two listings with one conversation each, no message yet
\* ------------------------------------------------------------------------
ChatViewers == {"u1"}
ChatConversations == {ConvId(1)}
PeerSenders == {"u2"}
DraftInputs == {<<" ", "h">>}
PeerContent == <<"y">>

InitChat ==
  /\ bazaar_posts = {NewPostRow(PostId(1), "u1"), NewPostRow(PostId(2), "u2")}
  /\ bazaar_conversations =
       {[id |-> ConvId(1), post_id |-> PostId(1), buyer_id |-> "u2",
         seller_id |-> "u1", last_message_at |-> 0],
        [id |-> ConvId(2), post_id |-> PostId(2), buyer_id |-> "u1",
         seller_id |-> "u2", last_message_at |-> 0]}
  /\ bazaar_messages = {}
  /\ seller_ratings = {}
  /\ profiles = [u \in Users |-> [seller_rating |-> 0, seller_rating_count |-> 0]]
  /\ nextId = [post |-> 3, conversation |-> 3, message |-> 1]
  /\ clock = 0
  /\ errors = {}
  /\ detail = [d \in Devices |-> NoScreen]
  /\ calls = [i \in 1..MaxCalls |-> NoCall]
  /\ lastNav = {}
  /\ rate = [d \in Devices |-> NoRateScreen]
  /\ chat = NoChat
  /\ events = <<>>
  /\ reads = {}
  /\ sends = {}
  /\ marked = None
  /\ form = NoForm
  /\ requests = NoRequests
  /\ priceView = NoPriceView
  /\ inbox = NoInbox
  /\ seen = {}
  /\ auth = NoAuth
  /\ feed = NoFeed
  /\ reviews = NoReviews
  /\ updateGranted = TRUE

OpenChat ==
  \E u \in ChatViewers, c \in bazaar_conversations :
     c.id \in ChatConversations /\ CanViewConversation(u, c) /\ ChatMount(u, c.id)

HistoryFetched == \E f \in chat.fetches : HistoryExecuted(f)

HistoryShown == \E f \in chat.fetches : HistoryApplied(f)

BulkReadAnswered == \E r \in reads : markMessagesAsRead(r)

OneReadAnswered == \E r \in reads, ok \in BOOLEAN : markMessageAsRead(r, ok)

EditDraft == \E text \in DraftInputs : TypeDraft(text)

InsertMessageAnswered ==
  \E s \in sends, reached \in BOOLEAN : SendAnswered(s, reached)

OtherDeviceSends ==
  \E u \in PeerSenders, c \in bazaar_conversations :
     PeerSend(u, c.id, PeerContent)

NextChat ==
  \/ OpenChat
  \/ \E cid \in ChatConversations : ChatMountSignedOut(cid)
  \/ \E u \in ChatViewers : SessionResolved(u)
  \/ SubscriptionJoined
  \/ EffectRerun
  \/ LoadConversationAnswered
  \/ HistoryFetched
  \/ HistoryShown
  \/ EventDelivered
  \/ BulkReadAnswered
  \/ OneReadAnswered
  \/ EditDraft
  \/ sendMessage
  \/ InsertMessageAnswered
  \/ OtherDeviceSends
  \/ ChatUnmount
  \/ Tick

SpecChat == InitChat /\ [][NextChat]_vars

\* C8: a submission for a (buyer, post) pair that already has a rating
\* succeeds; afterwards the table holds exactly one row for the pair, with
\* the submitted rating and review text, and the seller's count is the number
\* of the seller's rows.
C8_ResubmitUpdates ==
  \A d \in Devices :
    (rate[d].sent # None /\ rate[d].hadRow) =>
      LET r == rate[d].sent[1]
          mine == {o \in seller_ratings :
                     o.buyer_id = r.buyer_id /\ o.post_id = r.post_id}
      IN /\ rate[d].outcome = "Thank you!"
         /\ Cardinality(mine) = 1
         /\ \A o \in mine : o.rating = r.rating /\ o.review_text = r.review_text
         /\ profiles[r.seller_id].seller_rating_count =
              Cardinality(RatingsOf(seller_ratings, r.seller_id))

\* C9: every profile holds the number of rating rows naming it as seller and
\* the one-decimal value nearest to their average (0 without rows).
IsAverageToOneDecimal(tenths, rows) ==
  IF rows = {} THEN tenths = 0
  ELSE LET n == Cardinality(rows)
           d == 10 * SumRatings(rows) - tenths * n
       IN 2 * d <= n /\ -n < 2 * d

C9_AggregateMatchesRows ==
  \A u \in Users :
    /\ profiles[u].seller_rating_count = Cardinality(RatingsOf(seller_ratings, u))
    /\ IsAverageToOneDecimal(profiles[u].seller_rating, RatingsOf(seller_ratings, u))

\* a seller has three ratings whose average is not a multiple of 0.1 and is
\* rounded up, one of them for a listing that was deleted afterwards
C9_Witness ==
  \E u \in Users :
    LET rows == RatingsOf(seller_ratings, u) IN
      /\ Cardinality(rows) = 3
      /\ \E r \in rows : r.post_id = NULL
      /\ 10 * SumRatings(rows) < profiles[u].seller_rating * 3

\* C1: an invocation of "message seller" that starts after an earlier
\* invocation for the same (post, buyer) has opened a conversation opens that
\* same conversation, creates no row and shows no error.
C1_SecondCallSameConversation ==
  \A i \in 1..MaxCalls :
    (calls[i].pc = "done" /\ calls[i].prev # NULL) =>
      /\ calls[i].nav = calls[i].prev
      /\ ~calls[i].created
      /\ calls[i].error = NULL

\* two invocations for the same (post, buyer), the second started after the
\* first had created and opened the conversation, have both completed
C1_Witness ==
  \E i, j \in 1..MaxCalls :
    /\ i # j
    /\ calls[i].pc = "done" /\ calls[i].created
    /\ calls[j].pc = "done" /\ calls[j].prev = calls[i].nav
    /\ calls[j].user = calls[i].user
    /\ calls[j].post[1].id = calls[i].post[1].id
    /\ calls[j].nav = calls[i].nav

\* C2: the conversations table never holds two rows with the same
\* (post_id, buyer_id), whatever the interleaving of the invocations.
C2_OneConversationPerPair ==
  \A a, b \in bazaar_conversations :
    (a.post_id = b.post_id /\ a.buyer_id = b.buyer_id) => a = b

\* two invocations of the same buyer on the same listing both missed the
\* lookup and both sent the insert; one row was stored
C2_Witness ==
  \E i, j \in 1..MaxCalls :
    /\ i # j
    /\ calls[i].pc = "done" /\ calls[i].created
    /\ calls[j].pc = "done" /\ calls[j].error = "unique"
    /\ calls[j].user = calls[i].user
    /\ calls[j].post[1].id = calls[i].post[1].id

\* C3: an invocation whose insert failed on the uniqueness constraint ends
\* by opening the conversation stored for its (post, buyer); it ends with
\* the error alert only when no such conversation can be found.
C3_ConflictOpensExisting ==
  \A i \in 1..MaxCalls :
    (calls[i].pc = "done" /\ calls[i].error = "unique") =>
      \/ existingConv(calls[i].user, calls[i].post[1]) = None
      \/ Some(calls[i].nav) = existingConv(calls[i].user, calls[i].post[1])

\* C10: a listing inserted by the new-listing form is 'active' with a null
\* sold_at; "mark as sold" leaves the listing 'sold' with a non-null sold_at,
\* in the table and on the screen; a listing that is 'sold' stays 'sold' with
\* a non-null sold_at for as long as its row exists.
C10_CreatedActive ==
  \A r \in bazaar_posts' :
    ~PostExists(r.id) => r.status = "active" /\ r.sold_at = None

C10_MarkSells ==
  \A d \in Devices :
    handleMarkAsSold(d) =>
      /\ \A r \in bazaar_posts' :
           r.id = detail[d].post[1].id => r.status = "sold" /\ r.sold_at # None
      /\ detail'[d].post[1].status = "sold"
      /\ detail'[d].post[1].sold_at # None

C10_SoldStays ==
  \A r \in bazaar_posts :
    r.status = "sold" =>
      \A r2 \in bazaar_posts' :
        r2.id = r.id => r2.status = "sold" /\ r2.sold_at # None

C10_StatusAndTimestamp ==
  \A r \in bazaar_posts :
    /\ bazaar_posts_status_check(r)
    /\ r.status = "sold" <=> r.sold_at # None

C10_SoldIsFinal ==
  /\ [][C10_CreatedActive /\ C10_MarkSells /\ C10_SoldStays]_vars
  /\ []C10_StatusAndTimestamp

\* a listing created by the form was marked as sold, and marked as sold
\* again later from a second device that still showed it active
C10_Witness ==
  \E r \in bazaar_posts :
    /\ r.status = "sold"
    /\ \E d \in Devices :
         /\ detail[d].post # None
         /\ detail[d].post[1].id = r.id
         /\ detail[d].post[1].status = "sold"
         /\ detail[d].post[1].sold_at # r.sold_at

\* ------------------------------------------------------------------------
\* Price labels: one post with any of the prices and currencies below
\* ------------------------------------------------------------------------
PriceInputs == {None, Some(0), Some(50), Some(149), Some(2500), Some(2549),
                Some(2550), Some(99999)}
CurrencyInputs == {None, Some(""), Some("CAD"), Some("USD"), Some("EUR"), Some("GBP")}

InitPrice ==
  /\ bazaar_posts = {}
  /\ bazaar_conversations = {}
  /\ bazaar_messages = {}
  /\ seller_ratings = {}
  /\ profiles = [u \in Users |-> [seller_rating |-> 0, seller_rating_count |-> 0]]
  /\ nextId = [post |-> 1, conversation |-> 1, message |-> 1]
  /\ clock = 0
  /\ errors = {}
  /\ detail = [d \in Devices |-> NoScreen]
  /\ calls = [i \in 1..MaxCalls |-> NoCall]
  /\ lastNav = {}
  /\ rate = [d \in Devices |-> NoRateScreen]
  /\ chat = NoChat
  /\ events = <<>>
  /\ reads = {}
  /\ sends = {}
  /\ marked = None
  /\ form = NoForm
  /\ requests = NoRequests
  /\ \E p \in PriceInputs, c \in CurrencyInputs :
        priceView = [NoPriceView EXCEPT !.price = p, !.currency = c]
  /\ inbox = NoInbox
  /\ seen = {}
  /\ auth = NoAuth
  /\ feed = NoFeed
  /\ reviews = NoReviews
  /\ updateGranted = TRUE

NextPrice == RenderCard \/ RenderPriceDetail \/ ClosePriceViews

SpecPrice == InitPrice /\ [][NextPrice]_vars

\* C11: every rendered price label of a post is "C$25" for price 25.00 in
\* CAD, "$25" for price 25.00 in USD, and "Contact for price" for a null
\* price, on the grid card and on the detail screen alike.
C11_PriceLabels ==
  \A label \in {priceView.card, priceView.detail} :
     label # <<>> =>
       /\ (priceView.price = Some(2500) /\ priceView.currency = Some("CAD"))
            => label = <<Some("C$25")>>
       /\ (priceView.price = Some(2500) /\ priceView.currency = Some("USD"))
            => label = <<Some("$25")>>
       /\ priceView.price = None => label = <<Some("Contact for price")>>

\* ------------------------------------------------------------------------
\* Inbox: the chat operations, and the inbox opened, covered and uncovered
\* ------------------------------------------------------------------------
OpenInbox == \E u \in ChatViewers : InboxOpen(u)

NextInbox ==
  \/ NextChat
  \/ OpenInbox
  \/ InboxBlur
  \/ InboxFocus
  \/ InboxClose

SpecInbox == InitChat /\ [][NextInbox]_vars

\* C12: whenever the inbox has gained focus with a user signed in, the
\* conversation list (and with it each conversation's unread count) has been
\* queried again for that focus.
C12_FocusQueries ==
  (inbox.focused /\ inbox.user # NULL) => inbox.queried

\* ------------------------------------------------------------------------
\* Threads: the chat operations, and sellers deleting their listings
\* ------------------------------------------------------------------------
OwnerOpensListing ==
  \E d \in SellerDevices, r \in bazaar_posts : LoadPost(d, r.user_id, r.id)

OwnerDeletesListing == \E d \in SellerDevices : handleDelete(d)

NextThread ==
  \/ NextChat
  \/ OwnerOpensListing
  \/ OwnerDeletesListing

SpecThread == InitChat /\ [][NextThread]_vars

\* a stored message is kept as it is, except that is_read may turn true
MessageKept(m, rows) ==
  \E n \in rows :
     /\ n.id = m.id
     /\ n.content = m.content
     /\ n.sender_id = m.sender_id
     /\ n.conversation_id = m.conversation_id
     /\ n.created_at = m.created_at
     /\ m.is_read => n.is_read

\* C15 as claimed: no client operation changes a stored message's content,
\* sender, conversation or creation time or deletes a message; the only
\* change is is_read turning from false to true.
C15_AppendOnly ==
  [][\A m \in bazaar_messages : MessageKept(m, bazaar_messages')]_vars

\* C15 as amended: every stored message is kept with its content, sender,
\* conversation and creation time, and is_read only turns from false to
\* true, unless the step deletes the listing of the message's conversation,
\* in which case the message is deleted with the conversation.
C15_AppendOnlyButCascade ==
  [][\A m \in bazaar_messages :
        LET c == CHOOSE c \in bazaar_conversations : c.id = m.conversation_id
        IN IF \A r \in bazaar_posts' : r.id # c.post_id
             THEN \A n \in bazaar_messages' : n.id # m.id
             ELSE MessageKept(m, bazaar_messages')]_vars

\* a message has been sent and marked read by the bulk mark-read, and it is
\* gone since its listing was deleted
C15_Witness ==
  /\ nextId.message > 1
  /\ marked # None /\ marked[1].before > 0
  /\ bazaar_messages = {}

C19_FailedChecks ==
  {x \in FormFields :
     \/ x = "title" /\ \A i \in 1..Len(form.title) : IsSpace(form.title[i])
     \/ x = "price" /\ LET digits == {i \in 1..Len(form.price) :
                                          form.price[i] \in Digits}
                       IN \/ digits = {}
                          \/ \E i \in 1..Len(form.price) :
                                ~IsSpace(form.price[i]) /\ i \notin digits
     \/ x = "contact" /\ \A i \in 1..Len(form.contact) : IsSpace(form.contact[i])
     \/ x = "photo" /\ ~form.photo}

C19_ValidationBlocksSubmit ==
  [][/\ (requests' # requests \/ nextId.post' # nextId.post) =>
          C19_FailedChecks = {} /\ errors' = {}
     /\ errors' # errors => errors' = C19_FailedChecks
    ]_vars

\* a form with two failed checks has been submitted: both errors are shown
\* and nothing has been uploaded or inserted
C19_Witness ==
  /\ Cardinality(errors) = 2
  /\ errors = C19_FailedChecks
  /\ requests = NoRequests /\ bazaar_posts = {}

\* ------------------------------------------------------------------------
\* Opening a thread that already holds messages
\* ------------------------------------------------------------------------
\* messages sent and read before the screen is opened: in the viewed
\* conversation one unread and one read from the peer and one of the viewer,
\* in the viewer's other conversation one unread from the peer
EarlierMessages ==
  { NewMessageRow(1, ConvId(1), "u2", PeerContent),
    [NewMessageRow(2, ConvId(1), "u2", PeerContent) EXCEPT !.is_read = TRUE],
    NewMessageRow(3, ConvId(1), "u1", PeerContent),
    NewMessageRow(4, ConvId(2), "u2", PeerContent) }

InitMark ==
  /\ clock = 0
  /\ bazaar_posts = {NewPostRow(PostId(1), "u1"), NewPostRow(PostId(2), "u2")}
  /\ bazaar_conversations =
       {[id |-> ConvId(1), post_id |-> PostId(1), buyer_id |-> "u2",
         seller_id |-> "u1", last_message_at |-> 0],
        [id |-> ConvId(2), post_id |-> PostId(2), buyer_id |-> "u1",
         seller_id |-> "u2", last_message_at |-> 0]}
  /\ bazaar_messages \in SUBSET EarlierMessages
  /\ seller_ratings = {}
  /\ profiles = [u \in Users |-> [seller_rating |-> 0, seller_rating_count |-> 0]]
  /\ nextId = [post |-> 3, conversation |-> 3,
               message |-> Cardinality(EarlierMessages) + 1]
  /\ errors = {}
  /\ detail = [d \in Devices |-> NoScreen]
  /\ calls = [i \in 1..MaxCalls |-> NoCall]
  /\ lastNav = {}
  /\ rate = [d \in Devices |-> NoRateScreen]
  /\ chat = NoChat
  /\ events = <<>>
  /\ reads = {}
  /\ sends = {}
  /\ marked = None
  /\ form = NoForm
  /\ requests = NoRequests
  /\ priceView = NoPriceView
  /\ inbox = NoInbox
  /\ seen = {}
  /\ auth = NoAuth
  /\ feed = NoFeed
  /\ reviews = NoReviews
  /\ updateGranted = TRUE

NextMark ==
  \/ OpenChat
  \/ SubscriptionJoined
  \/ EffectRerun
  \/ LoadConversationAnswered
  \/ HistoryFetched
  \/ HistoryShown
  \/ BulkReadAnswered
  \/ ChatUnmount
  \/ Tick

SpecMark == InitMark /\ [][NextMark]_vars

\* C20: the bulk mark-read of a viewer in a conversation leaves every row
\* unchanged except rows of that conversation that the viewer did not send
\* and that were unread, and on those it changes nothing but is_read.
C20_BulkMarkReadFrame ==
  [][\A r \in reads \ reads' :
       r.kind = "all" =>
         /\ \A m \in bazaar_messages :
              \/ m \in bazaar_messages'
              \/ /\ m.conversation_id = r.conversation_id
                 /\ m.sender_id # r.user
                 /\ ~m.is_read
                 /\ [m EXCEPT !.is_read = TRUE] \in bazaar_messages'
         /\ \A n \in bazaar_messages' :
              \E m \in bazaar_messages : n = m \/ n = [m EXCEPT !.is_read = TRUE]
         /\ Cardinality(bazaar_messages') = Cardinality(bazaar_messages)
    ]_vars

\* the update has just marked the peer's unread message of the viewed
\* conversation; the viewer's own message and the unread message of the
\* other conversation are still unread
C20_Witness ==
  /\ marked # None /\ marked[1].before > 0 /\ ~marked[1].twice
  /\ bazaar_messages = marked[1].after
  /\ \E m \in bazaar_messages :
       /\ m.conversation_id = marked[1].conversation_id
       /\ m.sender_id # marked[1].user /\ m.is_read /\ m.id = MsgId(1)
  /\ \E m \in bazaar_messages :
       /\ m.conversation_id = marked[1].conversation_id
       /\ m.sender_id = marked[1].user /\ ~m.is_read
  /\ \E m \in bazaar_messages :
       /\ m.conversation_id # marked[1].conversation_id
       /\ m.sender_id # marked[1].user /\ ~m.is_read

\* ------------------------------------------------------------------------
\* Backend API: any signed-in user calls the tables directly
\* ------------------------------------------------------------------------
\* the signed-in users: the two of the conversations and a third one
ApiUsers == Users \cup {"u3"}

\* what seen records of a message row
Observed(op, uid, m) ==
  [op |-> op, user |-> uid, id |-> m.id, conversation_id |-> m.conversation_id,
   sender_id |-> m.sender_id]

\* SELECT * FROM bazaar_messages WHERE conversation_id = cid as user uid
ApiSelectMessages(uid, cid) ==
  /\ seen' = seen \cup {Observed("read", uid, m) :
                           m \in {x \in bazaar_messages :
                                     CanViewMessage(uid, x) /\ x.conversation_id = cid}}
  /\ UNCHANGED <<dbVars, clock, priceView, inbox, exceptViews>>

\* INSERT INTO bazaar_messages (conversation_id, sender_id, content) as user
\* uid, with any sender_id
ApiInsertMessage(uid, cid, sender) ==
  /\ nextId.message <= MaxMsgs
  /\ LET m == NewMessageRow(nextId.message, cid, sender, PeerContent) IN
       /\ CanSendMessage(uid, m)
       /\ bazaar_messages' = bazaar_messages \cup {m}
       /\ bazaar_conversations' = update_conversation_timestamp(m)
       /\ nextId' = [nextId EXCEPT !.message = @ + 1]
       /\ seen' = seen \cup {Observed("insert", uid, m)}
  /\ UNCHANGED <<bazaar_posts, seller_ratings, profiles, clock, priceView, inbox,
                 exceptViews>>

\* INSERT INTO bazaar_conversations (post_id, buyer_id, seller_id) as user
\* uid, with any buyer_id and seller_id
ApiInsertConversation(uid, pid, buyer, seller) ==
  /\ nextId.conversation <= 2 + MaxConvs
  /\ LET c == [id |-> ConvId(nextId.conversation), post_id |-> pid,
               buyer_id |-> buyer, seller_id |-> seller,
               last_message_at |-> clock]
     IN /\ InsertConversationError(uid, c) = NULL
        /\ bazaar_conversations' = bazaar_conversations \cup {c}
        /\ nextId' = [nextId EXCEPT !.conversation = @ + 1]
  /\ UNCHANGED <<bazaar_posts, bazaar_messages, seller_ratings, profiles, clock,
                 viewVars, exceptViews>>

\* UPDATE bazaar_messages SET is_read = true (or content = ...) WHERE id = id
\* as user uid: the policy has USING and no WITH CHECK, the grant names no
\* columns
ApiUpdateMessage(uid, m, column) ==
  /\ CanUpdateMessage(uid, m)
  /\ LET n == IF column = "is_read" THEN [m EXCEPT !.is_read = TRUE]
                                     ELSE [m EXCEPT !.content = <<"z">>]
     IN /\ n # m
        /\ bazaar_messages' = (bazaar_messages \ {m}) \cup {n}
        /\ seen' = seen \cup {Observed("update", uid, m)}
  /\ UNCHANGED <<bazaar_posts, bazaar_conversations, seller_ratings, profiles,
                 nextId, clock, priceView, inbox, exceptViews>>

ApiReads ==
  \E uid \in ApiUsers, c \in bazaar_conversations : ApiSelectMessages(uid, c.id)

ApiSends ==
  \E uid \in ApiUsers, sender \in ApiUsers, c \in bazaar_conversations :
     ApiInsertMessage(uid, c.id, sender)

ApiStartsConversation ==
  \E uid \in ApiUsers, buyer \in ApiUsers, seller \in ApiUsers, p \in bazaar_posts :
     ApiInsertConversation(uid, p.id, buyer, seller)

NextApi ==
  \/ ApiReads
  \/ ApiSends
  \/ ApiStartsConversation
  \/ \E uid \in ApiUsers, m \in bazaar_messages, column \in {"is_read", "content"} :
        ApiUpdateMessage(uid, m, column)

SpecApi == InitChat /\ [][NextApi]_vars

\* C16: a user who is neither buyer nor seller of a conversation never gets
\* one of its messages from the backend and never inserts a message into it,
\* and every inserted message carries the inserting user as its sender.
C16_ParticipantsOnly ==
  \A e \in seen :
     /\ IsParticipant(e.user, e.conversation_id)
     /\ e.op = "insert" => e.sender_id = e.user

\* both participants and the third user have used a conversation that holds
\* a message: a participant has inserted it and a participant has read it
C16_Witness ==
  /\ \E e \in seen : e.op = "insert"
  /\ \E e \in seen : e.op = "read" /\ e.user # e.sender_id
  /\ \E c \in bazaar_conversations : c.buyer_id = "u3"

\* C4: the chat screen's realtime subscription is open only once the history
\* fetch of loadMessages has completed: it is never open while that fetch is
\* still on its way.
C4_SubscribedAfterHistory ==
  chat.subscription # "closed" => chat.fetches = {}

\* C5: the rendered message list of the chat screen holds every message id
\* at most once.
C5_NoDuplicateIds ==
  \A i, j \in 1..Len(chat.messages) :
     chat.messages[i] = chat.messages[j] => i = j

\* C6: right after a call of markMessagesAsRead has completed, the unread
\* count of that conversation for that viewer (messages of the conversation
\* with is_read false and a sender other than the viewer) is zero.
C6_UnreadZeroAfterMarkRead ==
  marked # None =>
    UnreadCount(bazaar_messages, marked[1].user, marked[1].conversation_id) = 0

\* a bulk mark-read has just completed on a conversation that had unread
\* messages for the viewer
C6_Witness ==
  /\ marked # None
  /\ ~marked[1].twice
  /\ marked[1].before > 0
  /\ \E m \in bazaar_messages :
        m.conversation_id = marked[1].conversation_id /\ m.is_read

\* C7: markMessagesAsRead is idempotent: when it completes a second time
\* right after the first, the message table is the one the first left.
C7_MarkReadIdempotent ==
  (marked # None /\ marked[1].twice) => bazaar_messages = marked[1].after

\* markMessagesAsRead has completed twice in a row on a conversation that
\* had unread messages for the viewer before the first
C7_Witness ==
  marked # None /\ marked[1].twice /\ marked[1].before > 0

\* C13: when the subscription delivers an insert event, a read-mark write
\* for that message id is issued if and only if the message's sender is not
\* the viewer; when such a write fails nothing is issued in its place (no
\* retry), and the rendered list and the error state stay as they are.
C13_ReadMarkOnDelivery ==
  [][/\ EventDelivered =>
          LET newMsg == Head(events)
              issued == {r \in reads' \ reads : r.kind = "one" /\ r.id = newMsg.id}
          IN /\ (newMsg.sender_id # chat.user) <=> (issued # {})
             /\ reads' \ reads = issued
     /\ \A r \in reads :
          markMessageAsRead(r, FALSE) =>
            /\ reads' = reads \ {r}
            /\ chat'.messages = chat.messages
            /\ errors' = errors
            /\ bazaar_messages' = bazaar_messages]_vars

\* the viewer's list holds a delivered message of the other participant, and
\* the read-mark for it is on its way
C13_Witness ==
  /\ chat.mounted
  /\ \E i \in 1..Len(chat.messages) :
        /\ MessageRow(chat.messages[i]).sender_id # chat.user
        /\ \E r \in reads : r.kind = "one" /\ r.id = chat.messages[i]
                               /\ r.user = chat.user

\* C14: the chat screen instance owns at most one open subscription at any
\* time, also across re-runs of its effect, and once it is unmounted it owns
\* none: no event is queued for it and its message list can no longer change.
C14_OneSubscription ==
  /\ chat.open <= 1
  /\ chat.subscription # "closed" => chat.open = 1
  /\ ~chat.mounted =>
       /\ chat.open = 0
       /\ chat.subscription = "closed"
       /\ events = <<>>
       /\ chat.messages = <<>>

\* the effect has run again on a screen that had shown its history: the new
\* run's fetch is on its way and one subscription is open
C14_Witness ==
  /\ chat.mounted
  /\ ~chat.loading
  /\ chat.fetches # {}
  /\ chat.open = 1

\* C21: a stored message is updated only by its recipient, the participant
\* of its conversation who did not send it; its sender and users outside the
\* conversation never change a field of it.
C21_OnlyRecipientUpdates ==
  \A e \in seen :
     e.op = "update" =>
        IsParticipant(e.user, e.conversation_id) /\ e.user # e.sender_id

InitBackground ==
  /\ bazaar_conversations = {}
  /\ bazaar_messages = {}
  /\ seller_ratings = {}
  /\ profiles = [u \in Users |-> [seller_rating |-> 0, seller_rating_count |-> 0]]
  /\ clock = 0
  /\ errors = {}
  /\ detail = [d \in Devices |-> NoScreen]
  /\ calls = [i \in 1..MaxCalls |-> NoCall]
  /\ lastNav = {}
  /\ rate = [d \in Devices |-> NoRateScreen]
  /\ chat = NoChat
  /\ events = <<>>
  /\ reads = {}
  /\ sends = {}
  /\ marked = None
  /\ form = NoForm
  /\ requests = NoRequests
  /\ priceView = NoPriceView
  /\ inbox = NoInbox
  /\ seen = {}
  /\ updateGranted = TRUE

\* RootLayoutNav is mounted: useSession has called getSession() and
\* registered its callback, the session is the stored one or none, and the
\* first route is in the (auth) group or outside it (a link)
InitAuth ==
  /\ InitBackground
  /\ bazaar_posts = {}
  /\ nextId = [post |-> 1, conversation |-> 1, message |-> 1]
  /\ \E stored \in {NULL, "u1"}, first \in {"auth", "app"} :
       auth = [backend |-> stored, reading |-> "pending", result |-> NULL,
               events |-> <<>>, initial |-> FALSE, session |-> NULL,
               loading |-> TRUE, route |-> first, effectDue |-> TRUE,
               changes |-> 0]
  /\ feed = NoFeed
  /\ reviews = NoReviews

NextAuth ==
  \/ GetSessionRead
  \/ GetSessionThen
  \/ EmitInitialSession
  \/ \E next \in {NULL, "u1"} : AuthChange(next)
  \/ AuthEventDelivered
  \/ RedirectEffect

SpecAuth == InitAuth /\ [][NextAuth]_vars

\* every callback that is due runs and the effect runs after each render
SpecAuthFair ==
  /\ SpecAuth
  /\ WF_vars(GetSessionRead) /\ WF_vars(GetSessionThen)
  /\ WF_vars(EmitInitialSession) /\ WF_vars(AuthEventDelivered)
  /\ WF_vars(RedirectEffect)

\* C23: the route changes only once the session has finished loading, to
\* login when no user is signed in and the route is outside (auth), to the
\* tabs when a user is signed in and the route is inside (auth); so the app
\* comes to rest on an auth route after sign-out and on a non-auth route
\* after sign-in.
C23_RedirectRule ==
  [][auth'.route # auth.route =>
       /\ ~auth.loading
       /\ \/ auth.session = NULL /\ auth.route # "auth" /\ auth'.route = "auth"
          \/ auth.session # NULL /\ auth.route = "auth" /\ auth'.route = "app"]_vars

C23_RestsOnRoute ==
  /\ C23_RedirectRule
  /\ <>[](auth.route = (IF auth.backend = NULL THEN "auth" ELSE "app"))

\* C29: once getSession() has been answered and every auth event has been
\* delivered, the session of useSession is the session of the most recent
\* auth event.
C29_SessionIsLatest ==
  (auth.reading = "done" /\ auth.initial /\ auth.events = <<>>) =>
     auth.session = auth.backend

\* C24: when the initial history fetch of a mounted chat screen completes,
\* every message an insert event has put into the rendered list is still in
\* the list.
C24_HistoryKeepsEvents ==
  [][(chat.mounted /\ chat.loading /\ chat'.mounted /\ ~chat'.loading) =>
        \A i \in 1..Len(chat.messages) :
           \E j \in 1..Len(chat'.messages) : chat'.messages[j] = chat.messages[i]
    ]_vars

\* ------------------------------------------------------------------------
\* A thread that receives two messages while it is open
\* ------------------------------------------------------------------------
\* the conversations of InitChat, with one more message id free so that the
\* peer can send two messages
InitOrder ==
  /\ bazaar_posts = {NewPostRow(PostId(1), "u1"), NewPostRow(PostId(2), "u2")}
  /\ bazaar_conversations =
       {[id |-> ConvId(1), post_id |-> PostId(1), buyer_id |-> "u2",
         seller_id |-> "u1", last_message_at |-> 0],
        [id |-> ConvId(2), post_id |-> PostId(2), buyer_id |-> "u1",
         seller_id |-> "u2", last_message_at |-> 0]}
  /\ bazaar_messages = {}
  /\ seller_ratings = {}
  /\ profiles = [u \in Users |-> [seller_rating |-> 0, seller_rating_count |-> 0]]
  /\ nextId = [post |-> 3, conversation |-> 3, message |-> 0]
  /\ clock = 0
  /\ errors = {}
  /\ detail = [d \in Devices |-> NoScreen]
  /\ calls = [i \in 1..MaxCalls |-> NoCall]
  /\ lastNav = {}
  /\ rate = [d \in Devices |-> NoRateScreen]
  /\ chat = NoChat
  /\ events = <<>>
  /\ reads = {}
  /\ sends = {}
  /\ marked = None
  /\ form = NoForm
  /\ requests = NoRequests
  /\ priceView = NoPriceView
  /\ inbox = NoInbox
  /\ seen = {}
  /\ auth = NoAuth
  /\ feed = NoFeed
  /\ reviews = NoReviews
  /\ updateGranted = TRUE

NextOrder ==
  \/ OpenChat
  \/ SubscriptionJoined
  \/ LoadConversationAnswered
  \/ HistoryFetched
  \/ HistoryShown
  \/ EventDelivered
  \/ BulkReadAnswered
  \/ OneReadAnswered
  \/ OtherDeviceSends
  \/ ChatUnmount
  \/ Tick

SpecOrder == InitOrder /\ [][NextOrder]_vars

\* C25: the rendered message list of the chat screen is in ascending order
\* of creation time in every reachable state.
C25_ListAscending ==
  \A i \in 1..Len(chat.messages), j \in 1..Len(chat.messages) :
     i < j => MessageRow(chat.messages[i]).created_at
                <= MessageRow(chat.messages[j]).created_at

\* ------------------------------------------------------------------------
\* Marketplace screen (BazaarScreen): the paginated list of posts
\* ------------------------------------------------------------------------
\* the screen after loadPosts(pageNum, shouldRefresh) has run up to its
\* await, called from a render with the given loading and hasMore
loadPosts(screen, loading, hasMore, pageNum, shouldRefresh) ==
  IF loading /\ ~shouldRefresh THEN screen
  ELSE IF ~hasMore /\ ~shouldRefresh THEN screen
  ELSE [screen EXCEPT !.loading = TRUE,
                      !.requests = Pending(@, [tag |-> 0, pageNum |-> pageNum,
                                               shouldRefresh |-> shouldRefresh])]

\* the tab is opened: the focus callback runs loadPosts() and the debounce
\* timer of the search effect is started (it calls onRefresh, see below)
FeedOpen ==
  /\ ~feed.mounted
  /\ feed' = loadPosts([NoFeed EXCEPT !.mounted = TRUE], TRUE, TRUE, 0, FALSE)
  /\ UNCHANGED <<auth, reviews, exceptApp>>

\* useSession hands out another user object: the focus callback is created
\* again from the current render and, the screen being focused, runs
FeedUserChanged ==
  /\ feed.mounted
  /\ Cardinality(feed.requests) < MaxPending
  /\ Len(feed.posts) < MaxPages * PAGE_SIZE
  /\ feed' = loadPosts([feed EXCEPT !.closure = [loading |-> feed.loading,
                                                 hasMore |-> feed.hasMore]],
                       feed.loading, feed.hasMore, 0, FALSE)
  /\ UNCHANGED <<auth, reviews, exceptApp>>

\* the user comes back to the tab: the focus callback runs loadPosts()
FeedFocus ==
  /\ feed.mounted
  /\ Cardinality(feed.requests) < MaxPending
  /\ Len(feed.posts) < MaxPages * PAGE_SIZE
  /\ feed' = loadPosts(feed, feed.closure.loading, feed.closure.hasMore, 0, FALSE)
  /\ UNCHANGED <<auth, reviews, exceptApp>>

\* onRefresh, called by the RefreshControl and by the timer of the search
\* effect 500 ms after mount and after each change of the search text
onRefreshPosts ==
  /\ feed.mounted
  /\ Cardinality(feed.requests) < MaxPending
  /\ feed' = loadPosts([feed EXCEPT !.refreshing = TRUE], feed.loading,
                       feed.hasMore, 0, TRUE)
  /\ UNCHANGED <<auth, reviews, exceptApp>>

\* onEndReached of the list
onLoadMore ==
  /\ feed.mounted
  /\ Cardinality(feed.requests) < MaxPending
  /\ ~feed.loading /\ feed.hasMore
  /\ Len(feed.posts) < MaxPages * PAGE_SIZE
  /\ feed' = loadPosts(feed, feed.loading, feed.hasMore, feed.page + 1, FALSE)
  /\ UNCHANGED <<auth, reviews, exceptApp>>

\* .from('bazaar_posts').select('*').order('created_at', { ascending: false })
\* .range(from, to): rows are created in the order of their ids
SelectPosts(from, to) ==
  LET n == Cardinality(bazaar_posts)
      last == IF to + 1 < n THEN to + 1 ELSE n
  IN [i \in 1..(IF last > from THEN last - from ELSE 0) |-> PostId(n + 1 - (from + i))]

\* loadPosts from the answer of the query on
LoadPostsAnswered(r, ok) ==
  /\ IsLatest(feed.requests, r)
  /\ LET from == r.pageNum * PAGE_SIZE
         data == SelectPosts(from, from + PAGE_SIZE - 1)
         done == [feed EXCEPT !.loading = FALSE, !.refreshing = FALSE,
                              !.requests = @ \ {r}]
     IN feed' =
          IF ~ok THEN done
          ELSE IF r.shouldRefresh
            THEN [done EXCEPT !.posts = data, !.page = 0,
                              !.hasMore = (Len(data) = PAGE_SIZE)]
            ELSE [done EXCEPT !.posts = @ \o data, !.page = r.pageNum,
                              !.hasMore = (Len(data) = PAGE_SIZE)]
  /\ UNCHANGED <<auth, reviews, exceptApp>>

\* the table holds no post, a few, exactly one page or more than one page
InitFeed ==
  /\ InitBackground
  /\ \E n \in {0, 3, PAGE_SIZE, PAGE_SIZE + 1} :
       /\ bazaar_posts = {NewPostRow(PostId(i), "u1") : i \in 1..n}
       /\ nextId = [post |-> n + 1, conversation |-> 1, message |-> 1]
  /\ auth = NoAuth /\ feed = NoFeed /\ reviews = NoReviews

NextFeed ==
  \/ FeedOpen
  \/ FeedUserChanged
  \/ FeedFocus
  \/ onRefreshPosts
  \/ onLoadMore
  \/ \E r \in feed.requests, ok \in BOOLEAN : LoadPostsAnswered(r, ok)

SpecFeed == InitFeed /\ [][NextFeed]_vars

\* C26: the list of the marketplace screen and the list of the inbox hold
\* each row id at most once, after any sequence of focus events, refreshes
\* and load-more operations.
C26_RowsOnce ==
  /\ \A i \in 1..Len(feed.posts), j \in 1..Len(feed.posts) :
        i # j => feed.posts[i] # feed.posts[j]
  /\ \A i \in 1..Len(inbox.conversations), j \in 1..Len(inbox.conversations) :
        i # j => inbox.conversations[i].id # inbox.conversations[j].id

\* the inbox with every list query answered
SpecInboxFair == SpecInbox /\ WF_vars(LoadConversationsAnswered)

\* C27: once the inbox is mounted and focused by a signed-in user, its
\* loading flag eventually becomes false (or the screen is left).
C27_LoadingEnds ==
  (inbox.mounted /\ inbox.focused /\ inbox.user # NULL)
     ~> (~inbox.loading \/ ~inbox.mounted)

\* C28: no conversation row has buyer_id equal to seller_id: the owner of a
\* listing cannot open a conversation with themselves through "message
\* seller".
C28_NoSelfConversation ==
  \A c \in bazaar_conversations : c.buyer_id # c.seller_id

(***************************************************************************)
(* Restaurant reviews: the restaurant_reviews table and the review part of *)
(* the restaurant detail screen.  One restaurant is modelled; review_text  *)
(* is left out (it is stored as typed and read by nothing below).          *)
(***************************************************************************)

\* CHECK (rating >= 1 AND rating <= 5): the two ends of the range
ReviewStars == {1, 5}

ReviewRow(id, uid, rating) == [id |-> id, user_id |-> uid, rating |-> rating]

\* policy "Authenticated users can create reviews"; the table declares no
\* uniqueness over (restaurant_id, user_id)
CanInsertReview(uid, row) == uid # NULL /\ uid = row.user_id

\* policies "Users can update own reviews" / "Users can delete own reviews"
CanWriteReview(uid, row) == uid # NULL /\ uid = row.user_id

\* reviews.find((r) => r.user_id === user.id) over the list ordered by
\* created_at descending: the user's most recently created review (ids
\* grow with creation time)
FindUserReview(list, uid) ==
  LET own == {r \in list : r.user_id = uid}
  IN  IF uid # NULL /\ own # {}
        THEN Some(CHOOSE r \in own : \A q \in own : q.id <= r.id)
        ELSE None

\* the screen is mounted with its state at the useState defaults; the mount
\* effect issues loadRestaurant() and loadReviews()
ReviewsOpen ==
  /\ reviews.phase = "closed"
  /\ reviews' = [reviews EXCEPT !.phase = "open", !.user = "u1",
                                !.loads = @ + 1, !.details = @ + 1]
  /\ UNCHANGED <<auth, feed, exceptApp>>

\* loadRestaurant answered: the screen is rendered, or left on an error
LoadRestaurantAnswered(ok) ==
  /\ reviews.details > 0
  /\ reviews' = [reviews EXCEPT
                   !.details = @ - 1,
                   !.loading = IF ok /\ reviews.phase = "open" THEN FALSE ELSE @,
                   !.phase = IF ~ok /\ reviews.phase = "open" THEN "left" ELSE @]
  /\ UNCHANGED <<auth, feed, exceptApp>>

\* loadReviews answered: setReviews(data) unless the query failed, then the
\* effect on [user, reviews] recomputes userReview
LoadReviewsAnswered(ok) ==
  /\ reviews.loads > 0
  /\ LET list == IF ok /\ reviews.phase = "open" THEN reviews.table
                 ELSE reviews.list
     IN  reviews' = [reviews EXCEPT
                       !.loads = @ - 1,
                       !.list = list,
                       !.userReview = IF reviews.phase = "open"
                                        THEN FindUserReview(list, reviews.user)
                                        ELSE @]
  /\ UNCHANGED <<auth, feed, exceptApp>>

\* "Write Review" / "Edit Review", rendered once the restaurant is loaded
openReviewModal ==
  /\ reviews.phase = "open" /\ ~reviews.loading /\ ~reviews.showReviewModal
  /\ reviews' = [reviews EXCEPT
                   !.reviewRating = IF reviews.userReview # None
                                      THEN reviews.userReview[1].rating ELSE 0,
                   !.showReviewModal = TRUE]
  /\ UNCHANGED <<auth, feed, exceptApp>>

\* the Cancel button, disabled while submitting
closeReviewModal ==
  /\ reviews.phase = "open" /\ reviews.showReviewModal /\ ~reviews.submitting
  /\ reviews' = [reviews EXCEPT !.showReviewModal = FALSE, !.reviewRating = 0]
  /\ UNCHANGED <<auth, feed, exceptApp>>

\* a star of the modal is pressed
setReviewRating(n) ==
  /\ reviews.phase = "open" /\ reviews.showReviewModal
  /\ reviews.reviewRating # n
  /\ reviews' = [reviews EXCEPT !.reviewRating = n]
  /\ UNCHANGED <<auth, feed, exceptApp>>

\* inserts issued so far, answered or not
ReviewInserts ==
  reviews.next - 1
    + Cardinality({i \in 1..Len(reviews.writes) : reviews.writes[i].op = "insert"})

\* the submit button (disabled while reviewRating is 0 or submitting):
\* an update of userReview when it is set, an insert otherwise
submitReview ==
  /\ reviews.phase = "open" /\ reviews.showReviewModal
  /\ reviews.user # NULL /\ reviews.reviewRating # 0 /\ ~reviews.submitting
  /\ Len(reviews.writes) < MaxCalls
  /\ reviews.userReview = None => ReviewInserts < MaxReviews
  /\ LET w == IF reviews.userReview # None
                THEN [op |-> "update", id |-> reviews.userReview[1].id,
                      user_id |-> reviews.user, rating |-> reviews.reviewRating]
                ELSE [op |-> "insert", id |-> 0,
                      user_id |-> reviews.user, rating |-> reviews.reviewRating]
     IN  reviews' = [reviews EXCEPT !.submitting = TRUE,
                                    !.writes = Append(@, w)]
  /\ UNCHANGED <<auth, feed, exceptApp>>

\* the delete button of the modal (rendered when userReview is set),
\* confirmed in the alert
deleteReview ==
  /\ reviews.phase = "open" /\ reviews.showReviewModal
  /\ reviews.userReview # None
  /\ Len(reviews.writes) < MaxCalls
  /\ reviews' = [reviews EXCEPT
                   !.writes = Append(@, [op |-> "delete",
                                         id |-> reviews.userReview[1].id,
                                         user_id |-> reviews.user,
                                         rating |-> 0])]
  /\ UNCHANGED <<auth, feed, exceptApp>>

\* the table after the server has run write w for its sender
ReviewTableAfter(table, next, w) ==
  CASE w.op = "insert" ->
         IF CanInsertReview(w.user_id, ReviewRow(next, w.user_id, w.rating))
           THEN table \cup {ReviewRow(next, w.user_id, w.rating)}
           ELSE table
    [] w.op = "update" ->
         {IF r.id = w.id /\ CanWriteReview(w.user_id, r)
            THEN [r EXCEPT !.rating = w.rating] ELSE r : r \in table}
    [] OTHER ->
         {r \in table : ~(r.id = w.id /\ CanWriteReview(w.user_id, r))}

\* the i-th write in flight is answered.  Without an error the modal is
\* closed and loadReviews() and loadRestaurant() are issued; a submit then
\* clears submitting in either case.
ReviewWriteAnswered(i, ok) ==
  /\ i \in 1..Len(reviews.writes)
  /\ reviews.loads < MaxCalls /\ reviews.details < MaxCalls
  /\ LET w == reviews.writes[i]
         rest == [j \in 1..(Len(reviews.writes) - 1) |->
                    IF j < i THEN reviews.writes[j] ELSE reviews.writes[j + 1]]
         open == reviews.phase = "open"
     IN  reviews' = [reviews EXCEPT
           !.writes = rest,
           !.table = IF ok THEN ReviewTableAfter(@, reviews.next, w) ELSE @,
           !.next = IF ok /\ w.op = "insert" THEN @ + 1 ELSE @,
           !.showReviewModal = IF ok /\ open THEN FALSE ELSE @,
           !.reviewRating = IF ok /\ open THEN 0 ELSE @,
           !.loads = IF ok THEN @ + 1 ELSE @,
           !.details = IF ok THEN @ + 1 ELSE @,
           !.submitting = IF w.op # "delete" /\ open THEN FALSE ELSE @]
  /\ UNCHANGED <<auth, feed, exceptApp>>

\* the table is empty or holds one review, of the viewer or of another user
InitReviews ==
  /\ InitBackground
  /\ bazaar_posts = {}
  /\ nextId = [post |-> 1, conversation |-> 1, message |-> 1]
  /\ auth = NoAuth /\ feed = NoFeed
  /\ \E t \in {{}} \cup {{ReviewRow(1, u, 5)} : u \in Users} :
       reviews = [NoReviews EXCEPT !.table = t, !.next = Cardinality(t) + 1]

NextReviews ==
  \/ ReviewsOpen
  \/ \E ok \in BOOLEAN : LoadRestaurantAnswered(ok)
  \/ \E ok \in BOOLEAN : LoadReviewsAnswered(ok)
  \/ openReviewModal
  \/ closeReviewModal
  \/ \E n \in ReviewStars : setReviewRating(n)
  \/ submitReview
  \/ deleteReview
  \/ \E i \in 1..MaxCalls, ok \in BOOLEAN : ReviewWriteAnswered(i, ok)

SpecReviews == InitReviews /\ [][NextReviews]_vars

\* C30: after any sequence of review submissions, edits and deletions made
\* through the restaurant detail screen, in any interleaving with the loading
\* of the review list, each user has at most one review of the restaurant.
C30_OneReviewPerUser ==
  \A r \in reviews.table, q \in reviews.table :
     r.user_id = q.user_id => r = q

====
